---- MODULE Spec2Model ----
(***************************************************************************)
(* A model of the annotation front end: the data-access client             *)
(* (src/lib/airtable.ts), the annotation form                              *)
(* (src/components/AnnotationForm.tsx) and the part of the markdown viewer *)
(* that feeds the form (src/components/MarkdownViewer.tsx), against the    *)
(* remote table in which the "Annotation Notes" field of a task lives.     *)
(*                                                                         *)
(* JavaScript values are modelled as records of one shape per kind, so     *)
(* that a text, the value it parses to and the text a value serialises to  *)
(* are three different things.                                             *)
(***************************************************************************)
EXTENDS Integers, Sequences, FiniteSets, TLC

(***************************************************************************)
(* Bounds of the model.                                                    *)
(***************************************************************************)
\* Number of direct calls of updateAnnotationNote in one behaviour.
MaxCalls == 2
\* Number of user events on the form in one behaviour.
MaxEdits == 2

\* Number of user events on the form in one behaviour of SpecRender and of
\* SpecStatus.
MaxRenderEdits == 1

\* Number of lines of the markdown the viewer renders.
MaxLines == 4

\* Number of clicks on a task of the list in one behaviour.
MaxClicks == 3

\* Number of saves of the form of the page in one behaviour.
MaxSaves == 2

\* Number of user events on a form in one behaviour of any specification;
\* SpecForm, SpecRender and SpecStatus stop earlier.
MaxEvents == 4

(***************************************************************************)
(* Strings.  A string that is matched, split or concatenated by the code   *)
(* is a sequence of tokens; a token is a character or an identifier.       *)
(***************************************************************************)
DigitTokens == <<"0", "1", "2", "3", "4", "5", "6", "7", "8", "9">>

IsDigit(c) == \E i \in 1..10 : DigitTokens[i] = c

DigitValue(c) == (CHOOSE i \in 1..10 : DigitTokens[i] = c) - 1

RECURSIVE ToDecimal(_)
\* `${n}` for a non-negative integer n.
ToDecimal(n) ==
    IF n < 10 THEN <<DigitTokens[n + 1]>>
    ELSE ToDecimal(n \div 10) \o <<DigitTokens[(n % 10) + 1]>>

RECURSIVE parseInt(_)
\* parseInt(digits, 10) for a non-empty sequence of digits.
parseInt(ds) ==
    IF Len(ds) = 1 THEN DigitValue(ds[1])
    ELSE parseInt(SubSeq(ds, 1, Len(ds) - 1)) * 10 + DigitValue(ds[Len(ds)])

(***************************************************************************)
(* Annotation values.                                                      *)
(***************************************************************************)
\* A value of type string | string[], or undefined.
StrV(s) == [t |-> "string", s |-> s, a |-> <<>>]

ArrV(a) == [t |-> "array", s |-> "", a |-> a]

Undefined == [t |-> "undefined", s |-> "", a |-> <<>>]

\* An entry of the Annotation Notes map: a raw scalar ...
RawValue(v) == [wrapped |-> FALSE, value |-> v, timestamp |-> 0]

\* ... or the wrapper { value, timestamp } built at time `now`.
createTimestampedValue(v, now) == [wrapped |-> TRUE, value |-> v, timestamp |-> now]

\* The value inside a wrapper, or the value itself; undefined for no entry.
unwrapTimestampedValue(e) == e.value

\* The values Math.floor(Date.now() / 1000) takes.
Timestamps == {1}

(***************************************************************************)
(* Maps (JavaScript objects used as string-keyed maps).                    *)
(***************************************************************************)
EmptyMap == [k \in {} |-> RawValue(Undefined)]

\* A faulty variant of Put: the map is replaced by the one entry.
PutAlone(m, key, value) == [k \in {key} |-> value]

\* map[key] = value
Put(m, key, value) ==
    [k \in (DOMAIN m) \cup {key} |-> IF k = key THEN value ELSE m[k]]

(***************************************************************************)
(* Texts and the values they parse to.  A text is the empty string, text   *)
(* that is not JSON, or the serialisation of a map, an array, null or a    *)
(* number.                                                                 *)
(***************************************************************************)
Text(kind, m) == [kind |-> kind, m |-> m]

EmptyText == Text("empty", EmptyMap)

GarbageText == Text("garbage", EmptyMap)

\* A JavaScript value: undefined, a string, a plain object, an array (with
\* the named properties set on it), null or a number.
JsUndefined == [t |-> "undefined", text |-> EmptyText, m |-> EmptyMap]

JsString(text) == [t |-> "string", text |-> text, m |-> EmptyMap]

JsObject(m) == [t |-> "object", text |-> EmptyText, m |-> m]

JsArray(props) == [t |-> "array", text |-> EmptyText, m |-> props]

JsNull == [t |-> "null", text |-> EmptyText, m |-> EmptyMap]

JsNumber == [t |-> "number", text |-> EmptyText, m |-> EmptyMap]

\* JSON.parse(text): [threw, v].
JSONparse(text) ==
    CASE text.kind = "map" -> [threw |-> FALSE, v |-> JsObject(text.m)]
      [] text.kind = "array" -> [threw |-> FALSE, v |-> JsArray(EmptyMap)]
      [] text.kind = "null" -> [threw |-> FALSE, v |-> JsNull]
      [] text.kind = "number" -> [threw |-> FALSE, v |-> JsNumber]
      [] OTHER -> [threw |-> TRUE, v |-> JsUndefined]

\* JSON.stringify(v) for an object, an array, null or a number.  The named
\* properties of an array are not serialised.
JSONstringify(v) ==
    CASE v.t = "object" -> Text("map", v.m)
      [] v.t = "array" -> Text("array", EmptyMap)
      [] v.t = "null" -> Text("null", EmptyMap)
      [] OTHER -> Text("number", EmptyMap)

\* The truth value of a field value in a condition.
Truthy(v) ==
    CASE v.t = "undefined" -> FALSE
      [] v.t = "null" -> FALSE
      [] v.t = "string" -> v.text.kind # "empty"
      [] OTHER -> TRUE

\* typeof v
TypeOf(v) ==
    CASE v.t = "undefined" -> "undefined"
      [] v.t = "string" -> "string"
      [] v.t = "number" -> "number"
      [] OTHER -> "object"

(***************************************************************************)
(* Annotation keys: `${taskNumber}_${sectionIndex}_${fieldName}`.          *)
(***************************************************************************)
jsonKey(taskNumber, sectionIndex, fieldName) ==
    taskNumber \o <<"_">> \o ToDecimal(sectionIndex) \o <<"_">> \o <<fieldName>>

(***************************************************************************)
(* The remote table and the calls of the data-access client.               *)
(***************************************************************************)
VARIABLES
    airtable,   \* the remote table: record id -> [task, notes]
    calls,      \* the calls of updateAnnotationNote made so far, in start order
    log         \* the requests served so far: <<call, event>>, in service order

noteVars == <<airtable, calls, log>>

\* Task numbers.
T42 == <<"4", "2">>

T4 == <<"4">>

Tasks == {T42, T4}

\* The record that holds a task, when the table has one.
RecordIdOf(taskNumber) == IF taskNumber = T42 THEN "rec42" ELSE "rec4"

\* What the lookup by task number answers: the first matching record as
\* {id, fields}, or null.
NoRecord == [found |-> FALSE, id |-> "", notes |-> JsUndefined]

getRecordByTaskNumber(table, taskNumber) ==
    LET matching == {r \in DOMAIN table : table[r].task = taskNumber}
    IN  IF matching = {} THEN NoRecord
        ELSE LET r == CHOOSE x \in matching : TRUE
             IN  [found |-> TRUE, id |-> r, notes |-> table[r].notes]

\* The map a field content holds: the map a string serialises, the object
\* itself, or no entries at all.
MapOf(notes) ==
    IF notes.t = "string" /\ notes.text.kind = "map" THEN notes.text.m
    ELSE IF notes.t = "object" THEN notes.m
    ELSE EmptyMap

\* A faulty variant of CurrentAnnotationNotes: the call starts from the empty
\* map whatever the record holds.
FreshAnnotationNotes(currentNotes) == JsObject(EmptyMap)

\* Lines 193-205 of updateAnnotationNote: the map the call starts from.
\* A parse failure is caught and leaves the empty object.
CurrentAnnotationNotes(currentNotes) ==
    IF Truthy(currentNotes) /\ TypeOf(currentNotes) = "string"
    THEN LET parsed == JSONparse(currentNotes.text)
         IN  IF parsed.threw THEN JsObject(EmptyMap) ELSE parsed.v
    ELSE IF Truthy(currentNotes) /\ TypeOf(currentNotes) = "object"
    THEN currentNotes
    ELSE JsObject(EmptyMap)

\* annotationNotes[key] = value.  Module code is strict: setting a property
\* of null or of a number throws a TypeError.
SetProperty(v, key, value) ==
    CASE v.t = "object" -> [threw |-> FALSE, v |-> JsObject(Put(v.m, key, value))]
      [] v.t = "array" -> [threw |-> FALSE, v |-> JsArray(Put(v.m, key, value))]
      [] OTHER -> [threw |-> TRUE, v |-> v]

\* A faulty variant of AnnotationNotesBody: without the try/catch a parse
\* failure makes the call throw.
AnnotationNotesBodyNoCatch(currentNotes, key, value) ==
    LET unparsable == /\ Truthy(currentNotes)
                      /\ TypeOf(currentNotes) = "string"
                      /\ JSONparse(currentNotes.text).threw
        set == SetProperty(CurrentAnnotationNotes(currentNotes), key, value)
    IN  [threw |-> unparsable \/ set.threw,
         body |-> IF unparsable \/ set.threw THEN EmptyText
                  ELSE JSONstringify(set.v)]

\* Lines 191-213 of updateAnnotationNote, from the record to the text that
\* the PATCH carries: [threw, body].
AnnotationNotesBody(currentNotes, key, value) ==
    LET set == SetProperty(CurrentAnnotationNotes(currentNotes), key, value)
    IN  [threw |-> set.threw,
         body |-> IF set.threw THEN EmptyText ELSE JSONstringify(set.v)]

\* The PATCH of a record replaces the named field as a whole.
PatchedRow(row, body) == [row EXCEPT !.notes = JsString(body)]

\* Error messages.
NoRecordError == "No record found in Airtable with Task Number"

ApiError == "API error"

TypeErrorMessage == "TypeError"

\* What the caller that awaits a call does once it has settled: nothing, or
\* the save that toggleErrorFlag starts next.
NoJob ==
    [has |-> FALSE, taskNumber |-> <<>>, sectionIndex |-> 0, field |-> "",
     value |-> Undefined]

\* updateAnnotationNote(taskNumber, key, value) is called: the lookup request
\* is sent.  `field` and `next` belong to the form's save, if it is one.
NewCall(taskNumber, key, value, field, next) ==
    [pc |-> "lookup", taskNumber |-> taskNumber, key |-> key, value |-> value,
     field |-> field, next |-> next,
     record |-> NoRecord, body |-> EmptyText, err |-> ""]

\* A faulty variant of LookupAnswered: the null check of the record is
\* missing and the call goes on to its PATCH.
LookupAnsweredUnchecked(call, table) ==
    LET record == getRecordByTaskNumber(table, call.taskNumber)
        merged == AnnotationNotesBody(record.notes, call.key, call.value)
    IN  IF merged.threw
        THEN [call EXCEPT !.pc = "threw", !.err = TypeErrorMessage,
                          !.record = record]
        ELSE [call EXCEPT !.pc = "patch", !.record = record,
                          !.body = merged.body]

\* The call after its lookup has been answered from the table with a record
\* or with null: it has thrown (no record, or a TypeError), or it has sent
\* the PATCH of the merged map.
LookupAnswered(call, table) ==
    LET record == getRecordByTaskNumber(table, call.taskNumber)
        merged == AnnotationNotesBody(record.notes, call.key, call.value)
    IN  IF ~record.found
        THEN [call EXCEPT !.pc = "threw", !.err = NoRecordError]
        ELSE IF merged.threw
        THEN [call EXCEPT !.pc = "threw", !.err = TypeErrorMessage,
                          !.record = record]
        ELSE [call EXCEPT !.pc = "patch", !.record = record,
                          !.body = merged.body]

\* The call after a request of it has been answered with a non-2xx status or
\* has failed: getRecordByTaskNumber or updateRecord throws.
RequestFailed(call) == [call EXCEPT !.pc = "threw", !.err = ApiError]

\* The call after its PATCH has been answered 2xx.
PatchReturned(call) == [call EXCEPT !.pc = "returned"]

\* A faulty variant of PatchApplied: the table merges the call's entry into
\* the map it holds when the PATCH arrives.
PatchMerged(table, call) ==
    [table EXCEPT ![call.record.id] =
        PatchedRow(@, AnnotationNotesBody(@.notes, call.key, call.value).body)]

\* The table after the PATCH of the call has been applied.
PatchApplied(table, call) ==
    [table EXCEPT ![call.record.id] = PatchedRow(@, call.body)]

(***************************************************************************)
(* The markdown viewer's view of the stored annotations.                   *)
(***************************************************************************)
\* The document URL the form gets, as far as the code looks at it: the last
\* path segment, or no URL at all.
Url(file) == [t |-> "string", file |-> file]

NoUrl == [t |-> "undefined", file |-> <<>>]

\* "123.md" -> "123": the file name must match /^(\d+)\.md$/.  The empty
\* sequence stands for null.
extractTaskNumber(url) ==
    IF /\ url.t = "string"
       /\ Len(url.file) >= 2
       /\ url.file[Len(url.file)] = ".md"
       /\ \A i \in 1..(Len(url.file) - 1) : IsDigit(url.file[i])
    THEN SubSeq(url.file, 1, Len(url.file) - 1)
    ELSE <<>>

\* selectedTask?.fields["Task Number"] || extractTaskNumber(url)
TaskNumberOf(selectedTask, url) ==
    IF selectedTask.defined /\ selectedTask.taskNumber # <<>>
    THEN selectedTask.taskNumber
    ELSE extractTaskNumber(url)

\* The number of leading digits of a token sequence.
RECURSIVE DigitRun(_)
DigitRun(ts) ==
    IF ts = <<>> \/ ~IsDigit(Head(ts)) THEN 0 ELSE 1 + DigitRun(Tail(ts))

\* key.match(new RegExp(`^${taskNumber}_(\\d+)_(.+)$`)): [matched,
\* sectionIndex, fieldName].
MatchKey(taskNumber, key) ==
    LET n == Len(taskNumber)
        rest == SubSeq(key, n + 2, Len(key))
        d == DigitRun(rest)
        ok == /\ Len(key) >= n + 1
              /\ SubSeq(key, 1, n) = taskNumber
              /\ key[n + 1] = "_"
              /\ d >= 1
              /\ Len(rest) >= d + 2
              /\ rest[d + 1] = "_"
    IN  IF ok
        THEN [matched |-> TRUE,
              sectionIndex |-> parseInt(SubSeq(rest, 1, d)),
              fieldName |-> SubSeq(rest, d + 2, Len(rest))]
        ELSE [matched |-> FALSE, sectionIndex |-> 0, fieldName |-> <<>>]

\* annotationDataBySection[sectionIndex] || {}: the entries of the selected
\* task's Annotation Notes that belong to the section, by field name.  A
\* field that is missing, empty, unparsable or no map gives no entries.
annotationDataBySection(selectedTask, url, sectionIndex) ==
    LET notes == selectedTask.notes
        parsed == IF TypeOf(notes) = "string" THEN JSONparse(notes.text)
                  ELSE [threw |-> FALSE, v |-> notes]
        taskNumber == TaskNumberOf(selectedTask, url)
    IN  IF \/ ~selectedTask.defined
           \/ ~Truthy(notes)
           \/ parsed.threw
           \/ parsed.v.t # "object"
           \/ taskNumber = <<>>
        THEN EmptyMap
        ELSE LET m == parsed.v.m
                 mine == {k \in DOMAIN m :
                             /\ MatchKey(taskNumber, k).matched
                             /\ MatchKey(taskNumber, k).sectionIndex = sectionIndex}
                 names == {MatchKey(taskNumber, k).fieldName : k \in mine}
             IN  [f \in names |->
                     m[CHOOSE k \in mine : MatchKey(taskNumber, k).fieldName = f]]

(***************************************************************************)
(* The state outside the annotation form: the markdown viewer.             *)
(***************************************************************************)
VARIABLES
    content,       \* the content prop of the viewer: the lines of the markdown
    component,     \* the copy of the MarkdownViewer component that is built
    view           \* what the viewer has rendered

viewVars == <<content, component, view>>

(***************************************************************************)
(* The state outside the annotation form: the proxy, the table behind it   *)
(* and the client that calls it.                                           *)
(***************************************************************************)
VARIABLES
    apiKey,        \* whether process.env.AIRTABLE_API_KEY is set
    table,         \* the records of the upstream table, in upstream order
    request,       \* the request a handler of the proxy has received
    stage,         \* how far the request has got
    upstream,      \* the requests sent upstream and the upstream's answer
    response,      \* the response of the handler
    result         \* what the client function returns or throws

proxyVars == <<apiKey, table, request, stage, upstream, response, result>>

(***************************************************************************)
(* The state outside the annotation form: the page that lists the tasks    *)
(* and loads the document of the task that is clicked.                     *)
(***************************************************************************)
VARIABLES
    tasks,             \* the records that fetchTasksForUser has stored
    selectedTask,      \* the task clicked last, or NoTask
    selectedTaskLink,  \* the link whose document was loaded last, or NoLink
    markdown,          \* the text of the document; <<>> is the empty string
    loading,           \* the loading flag of the page
    pageError,         \* the error state of the page, or null
    toast,             \* the title and text of the toast shown last
    fetches,           \* the fetches of fetchMarkdown that are in flight
    network,           \* the requests made so far: their host, the link loaded
    shown,             \* the value that the form of section 1 shows
    saved,             \* the successful saves of that form so far
    clicks             \* the number of clicks on a task so far

pageVars == <<tasks, selectedTask, selectedTaskLink, markdown, loading,
              pageError, toast, fetches, network, shown, saved, clicks>>

\* What the form and the note updates leave alone.
elsewhere == <<viewVars, proxyVars, pageVars>>

null == "null"

\* A link that is absent, a text that new URL() rejects, or a URL.
NoLink == [kind |-> "absent", host |-> <<>>, path |-> <<>>]

NoTask == [id |-> "", taskNumber |-> "", link |-> NoLink, notes |-> ""]

NoToast == [title |-> "", description |-> ""]

\* The page before a user id is entered.
NoPage ==
    /\ tasks = <<>>
    /\ selectedTask = NoTask
    /\ selectedTaskLink = NoLink
    /\ markdown = <<>>
    /\ loading = FALSE
    /\ pageError = null
    /\ toast = NoToast
    /\ fetches = {}
    /\ network = <<>>
    /\ shown = ""
    /\ saved = <<>>
    /\ clicks = 0

\* The two copies of the component in the repository.
Components == {"MarkdownViewer.tsx", "part_004"}

NotRendered == [rendered |-> FALSE, segments |-> <<>>, elements |-> <<>>]

\* No markdown is loaded: the content is the empty string.
NoViewer ==
    /\ content = << <<>> >>
    /\ component = "part_004"
    /\ view = NotRendered

NoAnswer == [kind |-> "none", status |-> 0, records |-> <<>>, text |-> ""]

NoBody == [kind |-> "none", records |-> <<>>, error |-> "", details |-> ""]

NoRequest ==
    [from |-> "", handler |-> "", method |-> "", path |-> <<>>,
     uniqueId |-> "", taskNumber |-> "", recordId |-> "", body |-> ""]

\* No request has reached the proxy.
NoProxy ==
    /\ apiKey = TRUE
    /\ table = <<>>
    /\ request = NoRequest
    /\ stage = "idle"
    /\ upstream = [sent |-> <<>>, answer |-> NoAnswer]
    /\ response = [status |-> 0, body |-> NoBody]
    /\ result = [kind |-> "none", records |-> <<>>, message |-> ""]

NothingElse == NoViewer /\ NoProxy /\ NoPage

(***************************************************************************)
(* The annotation form.                                                    *)
(***************************************************************************)
VARIABLES
    form,          \* the local field values
    saving,        \* the field name being saved, or null
    error,         \* the inline error message, or null
    isPrefilled,   \* whether the prefilled data has been applied
    props,         \* the props of the last render
    refs,          \* prevSectionIndexRef, prevUrlRef, prevPrefilledDataRef
    job,           \* the continuation of toggleErrorFlag that is due to run
    edits,         \* the number of user events so far
    settled,       \* how the save that settled last ended, the fields whose
                   \* saves have settled, and whether a save has failed
    overlapped     \* whether a save has started while another was in flight

formVars == <<form, saving, error, isPrefilled, props, refs, job, edits,
              settled, overlapped>>

vars == <<airtable, calls, log, form, saving, error, isPrefilled, props, refs,
          job, edits, settled, overlapped, content, component, view,
          apiKey, table, request, stage, upstream, response, result,
          tasks, selectedTask, selectedTaskLink, markdown, loading, pageError,
          toast, fetches, network, shown, saved, clicks>>

\* The error flags, in the order createInitialErrorFlags lists them.
ErrorFlagKeys ==
    <<"hallucination", "repetitionLoop", "misdiagnosis", "toolMisuse",
      "ignoredFeedback", "prematureConclusion", "scopeCreep", "na", "other">>

ErrorFlagKeySet == {ErrorFlagKeys[i] : i \in 1..Len(ErrorFlagKeys)}

createInitialErrorFlags == [f \in ErrorFlagKeySet |-> FALSE]

\* The state a form has before any effect runs.
InitialForm ==
    [actionCategory |-> "", otherActionCategory |-> "",
     actionCorrectness |-> "", reasoningQuality |-> "", sandboxResponse |-> "",
     errorFlags |-> createInitialErrorFlags, otherErrorExplanation |-> ""]

standardCategories ==
    {"file-exploration", "code-analysis", "code-modification",
     "test-execution", "environment-setup"}

\* flag.toString().trim().toLowerCase().replace(/[^a-z]/g, "") for the
\* spellings of a flag that the model stores.
LookupKey(flag) ==
    CASE flag = "repetitionLoop" -> "repetitionloop"
      [] flag = "toolMisuse" -> "toolmisuse"
      [] flag = "Tool Misuse" -> "toolmisuse"
      [] flag = "ignoredFeedback" -> "ignoredfeedback"
      [] flag = "prematureConclusion" -> "prematureconclusion"
      [] flag = "scopeCreep" -> "scopecreep"
      [] flag = "N/A" -> "na"
      [] OTHER -> flag

\* normalizedMap[lookupKey], or "" for no entry.
normalizedMap(lookupKey) ==
    CASE lookupKey = "hallucination" -> "hallucination"
      [] lookupKey = "repetitionloop" -> "repetitionLoop"
      [] lookupKey = "misdiagnosis" -> "misdiagnosis"
      [] lookupKey = "toolmisuse" -> "toolMisuse"
      [] lookupKey = "ignoredfeedback" -> "ignoredFeedback"
      [] lookupKey = "prematureconclusion" -> "prematureConclusion"
      [] lookupKey = "scopecreep" -> "scopeCreep"
      [] lookupKey = "na" -> "na"
      [] lookupKey = "other" -> "other"
      [] OTHER -> ""

\* prefilledData.<fieldName>, unwrapped; undefined for no entry.
Prefilled(prefilledData, fieldName) ==
    IF <<fieldName>> \in DOMAIN prefilledData
    THEN unwrapTimestampedValue(prefilledData[<<fieldName>>])
    ELSE Undefined

\* The body of the prefill effect (lines 173-258): the fields after the
\* prefilled data has been applied to the fields `f`.
ApplyPrefilledData(f, prefilledData) ==
    LET category == Prefilled(prefilledData, "actionCategory")
        correctness == Prefilled(prefilledData, "actionCorrectness")
        reasoning == Prefilled(prefilledData, "reasoningQuality")
        sandbox == Prefilled(prefilledData, "sandboxResponse")
        flags == Prefilled(prefilledData, "errorFlags")
        explanation == Prefilled(prefilledData, "errorFlagOtherExplanation")
    IN  [actionCategory |->
            IF category.t # "string" THEN f.actionCategory
            ELSE IF category.s \in standardCategories THEN category.s
            ELSE "other",
         otherActionCategory |->
            IF category.t = "string" /\ category.s \notin standardCategories
            THEN category.s ELSE f.otherActionCategory,
         actionCorrectness |->
            IF correctness.t = "string" THEN correctness.s
            ELSE f.actionCorrectness,
         reasoningQuality |->
            IF reasoning.t = "string" THEN reasoning.s ELSE f.reasoningQuality,
         sandboxResponse |->
            IF sandbox.t = "string" THEN sandbox.s ELSE f.sandboxResponse,
         errorFlags |->
            IF flags.t # "array" THEN f.errorFlags
            ELSE [k \in ErrorFlagKeySet |->
                    \E i \in 1..Len(flags.a) :
                        normalizedMap(LookupKey(flags.a[i])) = k],
         otherErrorExplanation |->
            IF explanation.t = "string" THEN explanation.s
            ELSE f.otherErrorExplanation]

\* The refs before the first effect: -1, undefined and "".
InitialRefs ==
    [prevSectionIndexRef |-> 0 - 1, prevUrlRef |-> NoUrl,
     prevPrefilledDataRef |-> EmptyText]

\* A faulty variant of ResetEffect: the fields are reset whenever the effect
\* runs, that is whenever a dependency is a new object or value.
ResetEffectAlways(st, p) ==
    [form |-> InitialForm,
     isPrefilled |-> FALSE,
     refs |-> [prevSectionIndexRef |-> p.sectionIndex,
               prevUrlRef |-> p.url,
               prevPrefilledDataRef |->
                   JSONstringify(JsObject(p.prefilledData.data))]]

\* The reset effect (lines 142-168) on the component state st = [form,
\* isPrefilled, refs] for the props p: the fields are reset when the section
\* index, the URL or the serialised prefilled data differ from the refs.
ResetEffect(st, p) ==
    LET prefilledDataStr == JSONstringify(JsObject(p.prefilledData.data))
        sectionChanged == st.refs.prevSectionIndexRef # p.sectionIndex
        urlChanged == st.refs.prevUrlRef # p.url
        dataChanged == st.refs.prevPrefilledDataRef # prefilledDataStr
    IN  IF sectionChanged \/ urlChanged \/ dataChanged
        THEN [form |-> InitialForm,
              isPrefilled |-> FALSE,
              refs |-> [prevSectionIndexRef |-> p.sectionIndex,
                        prevUrlRef |-> p.url,
                        prevPrefilledDataRef |-> prefilledDataStr]]
        ELSE st

\* The prefill effect (lines 171-260), run in a render that saw isPrefilled
\* as `seen`.
PrefillEffect(st, seen, p) ==
    IF ~seen /\ DOMAIN p.prefilledData.data # {}
    THEN [st EXCEPT !.form = ApplyPrefilledData(st.form, p.prefilledData.data),
                    !.isPrefilled = TRUE]
    ELSE st

\* A render with props p of a component in state st, last rendered with
\* props old (mount: the first render), and the renders that the effects'
\* own state updates cause.  An effect runs when one of its dependencies is
\* not the value of the render before: the props by identity, isPrefilled by
\* value.
Render(st, old, p, mount) ==
    LET dataIsNew == mount \/ old.prefilledData.ref # p.prefilledData.ref
        resetRuns == mount \/ dataIsNew \/ old.sectionIndex # p.sectionIndex
                        \/ old.url # p.url
        st1 == IF resetRuns THEN ResetEffect(st, p) ELSE st
        st2 == IF dataIsNew THEN PrefillEffect(st1, st.isPrefilled, p) ELSE st1
        st3 == IF st2.isPrefilled # st.isPrefilled
               THEN PrefillEffect(st2, st2.isPrefilled, p) ELSE st2
        st4 == IF st3.isPrefilled # st2.isPrefilled
               THEN PrefillEffect(st3, st3.isPrefilled, p) ELSE st3
    IN  st4

\* The component state after mounting with props p.
Mounted(p) ==
    Render([form |-> InitialForm, isPrefilled |-> FALSE, refs |-> InitialRefs],
           p, p, TRUE)

\* The task number the form saves under (lines 138-139).
taskNumber == TaskNumberOf(props.selectedTask, props.url)

\* saveToAirtable(fieldName, value), called by a handler of the render with
\* the task number tn and section index si; `next` is what the caller does
\* once the save has settled.
saveToAirtable(tn, si, fieldName, value, next) ==
    IF tn = <<>>
    THEN /\ error' = "Unable to determine task number"
         /\ UNCHANGED <<saving, noteVars, overlapped>>
    ELSE \E now \in Timestamps :
            /\ saving' = fieldName
            /\ error' = null
            /\ calls' = Append(calls,
                   NewCall(tn, jsonKey(tn, si, fieldName),
                           createTimestampedValue(value, now), fieldName, next))
            /\ overlapped' = (overlapped \/ calls # <<>>)
            /\ UNCHANGED <<airtable, log>>

\* What every user event does besides its handler.
UserEvent ==
    /\ ~job.has
    /\ edits < MaxEvents
    /\ edits' = edits + 1
    /\ UNCHANGED <<isPrefilled, props, refs, job, settled, elsewhere>>

Enabled(fieldName) == taskNumber # <<>> /\ saving # fieldName

\* The options of the selects and the texts the user types.
CategoryChoices == {"code-analysis", "other"}

CorrectnessChoices == {"correct"}

ReasoningChoices == {"clear"}

SandboxChoices == {"yes"}

LabelChoices == {"mine"}

ExplanationChoices == {"why"}

FlagChoices == {"hallucination", "na", "other"}

handleActionCategoryChange(value) ==
    /\ Enabled("actionCategory")
    /\ value # form.actionCategory
    /\ UserEvent
    /\ form' = [form EXCEPT !.actionCategory = value]
    /\ LET displayValue ==
               IF value = "other" /\ form.otherActionCategory # ""
               THEN form.otherActionCategory ELSE value
       IN  saveToAirtable(taskNumber, props.sectionIndex, "actionCategory",
                          StrV(displayValue), NoJob)

\* The custom category input: onChange sets the local state only.
setOtherActionCategory(value) ==
    /\ form.actionCategory = "other"
    /\ value # form.otherActionCategory
    /\ UserEvent
    /\ form' = [form EXCEPT !.otherActionCategory = value]
    /\ UNCHANGED <<saving, error, noteVars, overlapped>>

handleActionCorrectnessChange(value) ==
    /\ Enabled("actionCorrectness")
    /\ value # form.actionCorrectness
    /\ UserEvent
    /\ form' = [form EXCEPT !.actionCorrectness = value]
    /\ saveToAirtable(taskNumber, props.sectionIndex, "actionCorrectness",
                      StrV(value), NoJob)

handleReasoningQualityChange(value) ==
    /\ Enabled("reasoningQuality")
    /\ value # form.reasoningQuality
    /\ UserEvent
    /\ form' = [form EXCEPT !.reasoningQuality = value]
    /\ saveToAirtable(taskNumber, props.sectionIndex, "reasoningQuality",
                      StrV(value), NoJob)

handleSandboxResponseChange(value) ==
    /\ Enabled("sandboxResponse")
    /\ value # form.sandboxResponse
    /\ UserEvent
    /\ form' = [form EXCEPT !.sandboxResponse = value]
    /\ saveToAirtable(taskNumber, props.sectionIndex, "sandboxResponse",
                      StrV(value), NoJob)

\* A faulty variant of UpdatedFlags: the flag is toggled and no other flag
\* is touched.
UpdatedFlagsToggleOnly(errorFlags, flag) ==
    [errorFlags EXCEPT ![flag] = ~errorFlags[flag]]

\* The flags toggleErrorFlag(flag) sets (lines 327-340).
UpdatedFlags(errorFlags, flag) ==
    LET toggled == [errorFlags EXCEPT ![flag] = ~errorFlags[flag]]
    IN  IF flag = "na" /\ toggled["na"]
        THEN [createInitialErrorFlags EXCEPT !["na"] = TRUE]
        ELSE IF flag # "na" /\ toggled[flag]
        THEN [toggled EXCEPT !["na"] = FALSE]
        ELSE toggled

\* A faulty variant of ShouldClearOtherExplanation: the explanation is
\* cleared when "other" is unchecked only.
ShouldClearOnUncheckOnly(errorFlags, flag) ==
    flag = "other" /\ errorFlags["other"]

\* Whether toggleErrorFlag(flag) clears the explanation (lines 332-344).
ShouldClearOtherExplanation(errorFlags, flag) ==
    LET updated == UpdatedFlags(errorFlags, flag)
    IN  \/ flag = "na" /\ updated["na"] /\ errorFlags["other"]
        \/ flag = "other" /\ ~updated["other"]

\* The names of the set flags, in the order of the object's keys.
SelectedFlags(errorFlags) ==
    SelectSeq(ErrorFlagKeys, LAMBDA f : errorFlags[f])

toggleErrorFlag(flag) ==
    LET updatedFlags == UpdatedFlags(form.errorFlags, flag)
        clear == ShouldClearOtherExplanation(form.errorFlags, flag)
        selectedFlags == ArrV(SelectedFlags(updatedFlags))
    IN  /\ Enabled("errorFlags")
        /\ UserEvent
        /\ form' = [form EXCEPT
              !.errorFlags = updatedFlags,
              !.otherErrorExplanation = IF clear THEN "" ELSE @]
        /\ IF clear
           THEN saveToAirtable(taskNumber, props.sectionIndex,
                    "errorFlagOtherExplanation", StrV(""),
                    [has |-> TRUE, taskNumber |-> taskNumber,
                     sectionIndex |-> props.sectionIndex,
                     field |-> "errorFlags", value |-> selectedFlags])
           ELSE saveToAirtable(taskNumber, props.sectionIndex, "errorFlags",
                               selectedFlags, NoJob)

\* The explanation textarea is rendered while the flag "other" is set.
ExplanationShown ==
    form.errorFlags["other"] /\ Enabled("errorFlagOtherExplanation")

handleOtherErrorExplanationChange(value) ==
    /\ ExplanationShown
    /\ value # form.otherErrorExplanation
    /\ UserEvent
    /\ form' = [form EXCEPT !.otherErrorExplanation = value]
    /\ UNCHANGED <<saving, error, noteVars, overlapped>>

\* The textarea loses the focus: its text is saved.
handleOtherErrorExplanationBlur ==
    /\ ExplanationShown
    /\ UserEvent
    /\ UNCHANGED form
    /\ saveToAirtable(taskNumber, props.sectionIndex,
                      "errorFlagOtherExplanation",
                      StrV(form.otherErrorExplanation), NoJob)

\* No save has settled yet.
NoneSettled ==
    [field |-> "", threw |-> FALSE, err |-> "", fields |-> {}, anyThrew |-> FALSE]

\* The sequence without its c-th element.
Without(seq, c) == SubSeq(seq, 1, c - 1) \o SubSeq(seq, c + 1, Len(seq))

\* A faulty variant of Settled: the catch does not set the error message.
SettledSilently(call) ==
    /\ error' = error
    /\ saving' = null
    /\ job' = call.next
    /\ settled' = [field |-> call.field, threw |-> call.pc = "threw",
                   err |-> call.err,
                   fields |-> settled.fields \cup {call.field},
                   anyThrew |-> settled.anyThrew \/ call.pc = "threw"]

\* The rest of saveToAirtable once its call has settled (lines 284-299): the
\* catch sets the error message, the finally clears the pending field; then
\* the caller that awaited the save goes on.
Settled(call) ==
    /\ error' = IF call.pc = "threw" THEN call.err ELSE error
    /\ saving' = null
    /\ job' = call.next
    /\ settled' = [field |-> call.field, threw |-> call.pc = "threw",
                   err |-> call.err,
                   fields |-> settled.fields \cup {call.field},
                   anyThrew |-> settled.anyThrew \/ call.pc = "threw"]

\* What no answer to a request changes.
AnswerFrame ==
    /\ ~job.has
    /\ UNCHANGED <<form, isPrefilled, props, refs, edits, overlapped, log,
                   elsewhere>>

\* The lookup of the c-th save in flight is answered.
SaveLookupAnswered(c) ==
    LET call == LookupAnswered(calls[c], airtable)
    IN  /\ AnswerFrame
        /\ calls[c].pc = "lookup"
        /\ UNCHANGED airtable
        /\ IF call.pc = "threw"
           THEN calls' = Without(calls, c) /\ Settled(call)
           ELSE /\ calls' = [calls EXCEPT ![c] = call]
                /\ UNCHANGED <<error, saving, job, settled>>

\* A request of the c-th save in flight fails.
SaveRequestFailed(c) ==
    /\ AnswerFrame
    /\ UNCHANGED airtable
    /\ calls' = Without(calls, c)
    /\ Settled(RequestFailed(calls[c]))

\* The PATCH of the c-th save in flight is applied and answered.
SavePatchApplied(c) ==
    /\ AnswerFrame
    /\ calls[c].pc = "patch"
    /\ calls[c].record.id \in DOMAIN airtable
    /\ airtable' = PatchApplied(airtable, calls[c])
    /\ calls' = Without(calls, c)
    /\ Settled(PatchReturned(calls[c]))

\* toggleErrorFlag goes on after its first save: it saves the flags.  This
\* runs before any other event or answer is handled.
ContinueToggle ==
    /\ job.has
    /\ saveToAirtable(job.taskNumber, job.sectionIndex, job.field, job.value,
                      NoJob)
    /\ job' = NoJob
    /\ UNCHANGED <<form, isPrefilled, props, refs, edits, settled, elsewhere>>

\* The strings that consist of white space only, among the strings of the
\* model: s.trim().length > 0 holds for every other string.
BlankTexts == {"", " "}

totalQuestions == 5

\* The number of true values of a sequence of booleans:
\* [...].filter(Boolean).length.
RECURSIVE CountTrue(_)
CountTrue(bs) ==
    IF bs = <<>> THEN 0
    ELSE (IF Head(bs) THEN 1 ELSE 0) + CountTrue(Tail(bs))

\* A faulty variant of CompletionStatus: the error flags count as answered
\* whatever the explanation of "other" is.
CompletionStatusAnyFlag(f) ==
    LET answeredQuestions ==
            CountTrue(<<f.actionCategory # ""
                          /\ (f.actionCategory # "other"
                                 \/ f.otherActionCategory \notin BlankTexts),
                        f.actionCorrectness # "",
                        f.reasoningQuality # "",
                        f.sandboxResponse # "",
                        \E k \in ErrorFlagKeySet : f.errorFlags[k]>>)
    IN  [answeredQuestions |-> answeredQuestions,
         totalQuestions |-> totalQuestions,
         isComplete |-> answeredQuestions = totalQuestions]

\* The status the completion effect (lines 373-410) reports for the fields f.
CompletionStatus(f) ==
    LET hasActionCategory ==
            /\ f.actionCategory # ""
            /\ (f.actionCategory # "other"
                   \/ f.otherActionCategory \notin BlankTexts)
        hasActionCorrectness == f.actionCorrectness # ""
        hasReasoningQuality == f.reasoningQuality # ""
        hasSandboxResponse == f.sandboxResponse # ""
        hasAnyErrorFlag == \E k \in ErrorFlagKeySet : f.errorFlags[k]
        hasValidOtherExplanation ==
            ~f.errorFlags["other"] \/ f.otherErrorExplanation \notin BlankTexts
        answeredQuestions ==
            CountTrue(<<hasActionCategory, hasActionCorrectness,
                        hasReasoningQuality, hasSandboxResponse,
                        hasAnyErrorFlag /\ hasValidOtherExplanation>>)
    IN  [answeredQuestions |-> answeredQuestions,
         totalQuestions |-> totalQuestions,
         isComplete |-> answeredQuestions = totalQuestions]

\* The values of the props a parent passes.
Url42 == Url(<<"4", "2", ".md">>)

UrlReadme == Url(<<"README.md">>)

SectionIndexes == {1, 2}

PrefilledChoices ==
    {EmptyMap,
     (<<"actionCorrectness">> :> RawValue(StrV("suboptimal")))
        @@ (<<"actionCategory">> :> createTimestampedValue(StrV("label"), 1))}

\* The parent renders the form again, with the same props or others; the
\* prefilled data is the same object or a new one.  Only whether an object
\* is the one of the render before matters, so two identities are enough.
Rerender(sectionIndex, url, data, sameObject) ==
    LET p == [props EXCEPT
                !.sectionIndex = sectionIndex,
                !.url = url,
                !.prefilledData =
                    [ref |-> IF sameObject THEN @.ref ELSE 1 - @.ref,
                     data |-> data]]
        st == Render([form |-> form, isPrefilled |-> isPrefilled, refs |-> refs],
                     props, p, FALSE)
    IN  /\ ~job.has
        /\ sameObject => data = props.prefilledData.data
        /\ props' = p
        /\ form' = st.form
        /\ isPrefilled' = st.isPrefilled
        /\ refs' = st.refs
        /\ UNCHANGED <<saving, error, job, edits, settled, overlapped,
                       noteVars, elsewhere>>

(***************************************************************************)
(* Specification Spec: direct calls of updateAnnotationNote against the    *)
(* remote table.                                                           *)
(***************************************************************************)
K1 == jsonKey(T42, 1, "actionCategory")

K2 == jsonKey(T42, 1, "errorFlags")

KOld == jsonKey(T42, 2, "actionCategory")

V1 == createTimestampedValue(StrV("code-analysis"), 1)

V2 == RawValue(ArrV(<<"na">>))

VOld == RawValue(StrV("old"))

\* The maps the Annotation Notes field holds at the start.
InitMaps == {(KOld :> VOld) @@ (K1 :> VOld)}

\* The contents the Annotation Notes field has at the start: absent, the
\* empty string, text that is not JSON, a serialised map, a map object, and
\* JSON that is no map.
InitNotes ==
    {JsUndefined, JsString(EmptyText), JsString(GarbageText)}
        \cup {JsString(Text("map", m)) : m \in InitMaps}
        \cup {JsObject(m) : m \in InitMaps}
        \cup {JsString(Text(k, EmptyMap)) : k \in {"array", "null", "number"}}
        \cup {JsArray(EmptyMap)}

\* The arguments of the direct calls.
NoteCalls ==
    {[taskNumber |-> T42, key |-> K1, value |-> V1],
     [taskNumber |-> T42, key |-> K2, value |-> V2],
     [taskNumber |-> T42, key |-> K1, value |-> V2],
     [taskNumber |-> T4, key |-> jsonKey(T4, 1, "actionCategory"), value |-> V1]}

FormProps(task, url, sectionIndex) ==
    [url |-> url, sectionIndex |-> sectionIndex, selectedTask |-> task,
     prefilledData |->
        [ref |-> 0,
         data |-> annotationDataBySection(task, url, sectionIndex)]]

SelectedTask(tn, notes) == [defined |-> TRUE, taskNumber |-> tn, notes |-> notes]

\* No form is mounted.
NoForm ==
    /\ form = InitialForm
    /\ saving = null
    /\ error = null
    /\ isPrefilled = FALSE
    /\ props = FormProps(SelectedTask(T42, JsUndefined), Url42, 1)
    /\ refs = InitialRefs
    /\ job = NoJob
    /\ edits = 0
    /\ settled = NoneSettled
    /\ overlapped = FALSE
    /\ NothingElse

Init ==
    /\ \/ airtable = [r \in {} |-> [task |-> T42, notes |-> JsUndefined]]
       \/ \E notes \in InitNotes :
             airtable = ("rec42" :> [task |-> T42, notes |-> notes])
    /\ calls = <<>>
    /\ log = <<>>
    /\ NoForm

Call(a) ==
    /\ Len(calls) < MaxCalls
    /\ calls' = Append(calls, NewCall(a.taskNumber, a.key, a.value, "", NoJob))
    /\ log' = Append(log, <<Len(calls) + 1, "start">>)
    /\ UNCHANGED <<airtable, formVars, elsewhere>>

NoteLookupAnswered(c) ==
    /\ calls[c].pc = "lookup"
    /\ calls' = [calls EXCEPT ![c] = LookupAnswered(@, airtable)]
    /\ log' = Append(log, <<c, "lookup">>)
    /\ UNCHANGED <<airtable, formVars, elsewhere>>

NoteLookupFailed(c) ==
    /\ calls[c].pc = "lookup"
    /\ calls' = [calls EXCEPT ![c] = RequestFailed(@)]
    /\ log' = Append(log, <<c, "lookupError">>)
    /\ UNCHANGED <<airtable, formVars, elsewhere>>

NotePatchApplied(c) ==
    /\ calls[c].pc = "patch"
    /\ calls[c].record.id \in DOMAIN airtable
    /\ airtable' = PatchApplied(airtable, calls[c])
    /\ calls' = [calls EXCEPT ![c] = PatchReturned(@)]
    /\ log' = Append(log, <<c, "patch">>)
    /\ UNCHANGED <<formVars, elsewhere>>

NotePatchFailed(c) ==
    /\ calls[c].pc = "patch"
    /\ calls' = [calls EXCEPT ![c] = RequestFailed(@)]
    /\ log' = Append(log, <<c, "patchError">>)
    /\ UNCHANGED <<airtable, formVars, elsewhere>>

Next ==
    \/ \E a \in NoteCalls : Call(a)
    \/ \E c \in DOMAIN calls : NoteLookupAnswered(c)
    \/ \E c \in DOMAIN calls : NoteLookupFailed(c)
    \/ \E c \in DOMAIN calls : NotePatchApplied(c)
    \/ \E c \in DOMAIN calls : NotePatchFailed(c)

Spec == Init /\ [][Next]_vars

(***************************************************************************)
(* Specification SpecForm: one mounted annotation form of task 42, its     *)
(* user and the remote table.  SpecRender adds the parent's re-renders.    *)
(***************************************************************************)
FormOldMap ==
    (jsonKey(T42, 1, "actionCorrectness") :> RawValue(StrV("incorrect")))
    @@ (jsonKey(T42, 1, "errorFlags") :> RawValue(ArrV(<<"Tool Misuse", "other">>)))
    @@ (jsonKey(T42, 1, "errorFlagOtherExplanation")
            :> createTimestampedValue(StrV("because"), 1))
    @@ (jsonKey(T42, 2, "actionCategory") :> RawValue(StrV("test-execution")))

FormInitNotes ==
    {JsUndefined, JsString(Text("map", FormOldMap)), JsString(GarbageText)}

\* A form of task 42, section 1, mounted from a fetch of the record.
MountedFrom(notes) ==
    LET p == FormProps(SelectedTask(T42, notes), Url42, 1)
    IN  /\ airtable = ("rec42" :> [task |-> T42, notes |-> notes])
        /\ calls = <<>>
        /\ log = <<>>
        /\ props = p
        /\ form = Mounted(p).form
        /\ isPrefilled = Mounted(p).isPrefilled
        /\ refs = Mounted(p).refs
        /\ saving = null
        /\ error = null
        /\ job = NoJob
        /\ edits = 0
        /\ settled = NoneSettled
        /\ overlapped = FALSE
        /\ NothingElse

InitForm == \E notes \in FormInitNotes : MountedFrom(notes)

\* One event of the user on a control of the form.
UserNext ==
    \/ \E v \in CategoryChoices : handleActionCategoryChange(v)
    \/ \E v \in LabelChoices : setOtherActionCategory(v)
    \/ \E v \in CorrectnessChoices : handleActionCorrectnessChange(v)
    \/ \E v \in ReasoningChoices : handleReasoningQualityChange(v)
    \/ \E v \in SandboxChoices : handleSandboxResponseChange(v)
    \/ \E flag \in FlagChoices : toggleErrorFlag(flag)
    \/ \E v \in ExplanationChoices : handleOtherErrorExplanationChange(v)
    \/ handleOtherErrorExplanationBlur

\* The user of SpecForm makes at most MaxEdits edits.
NextForm ==
    \/ edits < MaxEdits /\ UserNext
    \/ ContinueToggle
    \/ \E c \in DOMAIN calls : SaveLookupAnswered(c)
    \/ \E c \in DOMAIN calls : SaveRequestFailed(c)
    \/ \E c \in DOMAIN calls : SavePatchApplied(c)

SpecForm == InitForm /\ [][NextForm]_vars

(***************************************************************************)
(* Specification SpecFlags: a form of task 42 that is mounted empty, and   *)
(* a user who toggles error flags and edits the explanation of "other".    *)
(***************************************************************************)
InitFlags == MountedFrom(JsUndefined)

NextFlags ==
    \/ \E flag \in FlagChoices : toggleErrorFlag(flag)
    \/ \E v \in ExplanationChoices : handleOtherErrorExplanationChange(v)
    \/ handleOtherErrorExplanationBlur
    \/ ContinueToggle
    \/ \E c \in DOMAIN calls : SaveLookupAnswered(c)
    \/ \E c \in DOMAIN calls : SaveRequestFailed(c)
    \/ \E c \in DOMAIN calls : SavePatchApplied(c)

SpecFlags == InitFlags /\ [][NextFlags]_vars

(***************************************************************************)
(* Specification SpecStatus: a form of task 42, section 1, hydrated from   *)
(* any of a set of stored annotations, and its user.                       *)
(***************************************************************************)
Entry(fieldName, v) == (jsonKey(T42, 1, fieldName) :> RawValue(v))

\* What the record may hold for each field of the section; the empty map
\* stands for no entry.
StoredCategories ==
    {EmptyMap, Entry("actionCategory", StrV("code-analysis")),
     Entry("actionCategory", StrV("other")), Entry("actionCategory", StrV(" "))}

StoredSelects ==
    {EmptyMap,
     Entry("actionCorrectness", StrV("correct")),
     Entry("actionCorrectness", StrV("correct"))
        @@ Entry("reasoningQuality", StrV("clear")),
     Entry("actionCorrectness", StrV("correct"))
        @@ Entry("reasoningQuality", StrV("clear"))
        @@ Entry("sandboxResponse", StrV("yes"))}

StoredFlags ==
    {EmptyMap, Entry("errorFlags", ArrV(<<>>)),
     Entry("errorFlags", ArrV(<<"other">>)),
     Entry("errorFlags", ArrV(<<"hallucination", "other">>)),
     Entry("errorFlags", ArrV(<<"na">>))}

StoredExplanations ==
    {EmptyMap, Entry("errorFlagOtherExplanation", StrV(" ")),
     Entry("errorFlagOtherExplanation", StrV("because"))}

StatusNotes ==
    {JsString(Text("map", a @@ b @@ c @@ d)) :
        a \in StoredCategories, b \in StoredSelects, c \in StoredFlags,
        d \in StoredExplanations}

InitStatus == \E notes \in StatusNotes : MountedFrom(notes)

\* The user of SpecStatus makes at most MaxRenderEdits edits and starts none
\* while a save is in flight.
NextStatus ==
    \/ calls = <<>> /\ edits < MaxRenderEdits /\ UserNext
    \/ ContinueToggle
    \/ \E c \in DOMAIN calls : SaveLookupAnswered(c)
    \/ \E c \in DOMAIN calls : SaveRequestFailed(c)
    \/ \E c \in DOMAIN calls : SavePatchApplied(c)

SpecStatus == InitStatus /\ [][NextStatus]_vars

\* The user of SpecRender makes at most MaxRenderEdits edits and starts none
\* while a save is in flight.
NextRender ==
    \/ calls = <<>> /\ edits < MaxRenderEdits /\ UserNext
    \/ ContinueToggle
    \/ \E c \in DOMAIN calls : SaveLookupAnswered(c)
    \/ \E c \in DOMAIN calls : SaveRequestFailed(c)
    \/ \E c \in DOMAIN calls : SavePatchApplied(c)
    \/ \E si \in SectionIndexes, url \in {Url42, UrlReadme},
          data \in PrefilledChoices \cup {props.prefilledData.data},
          sameObject \in BOOLEAN :
            Rerender(si, url, data, sameObject)

\* The form has mounted and hydrated.
InitRender == MountedFrom(JsString(Text("map", FormOldMap)))

SpecRender == InitRender /\ [][NextRender]_vars

(***************************************************************************)
(* The markdown viewer.  The content is a sequence of lines               *)
(* (content.split("\n")) and a line a sequence of items: a paragraph, a    *)
(* heading ("## " and its title), an anchor tag (<a id="..."></a>), a      *)
(* marker comment (<!-- MD ... -->).  The text the regular expressions run  *)
(* over is the items of the lines with a newline between two lines.  The   *)
(* marker comments are the only comments; a comment ends on the line on    *)
(* which it starts.                                                        *)
(***************************************************************************)
Item(kind, text, meta) == [kind |-> kind, text |-> text, meta |-> meta]

Newline == Item("nl", <<>>, "")

Paragraph == Item("text", <<"lorem">>, "")

\* "## " and the title.
HeadingLine(title) == Item("heading", title, "")

\* <a id="id"></a>
AnchorTag(id) == Item("anchor", id, "")

\* The marker comments: "none" is <!-- MD -->, "role" is
\* <!-- MD {"role": "..."} --> with the role as text, "malformed" is
\* <!-- MD {role: assistant} -->, which is not JSON.
MarkerComment(meta, role) == Item("marker", role, meta)

TitleAssistant == <<"Assistant", " ", "-", " ", "Step", " ", "1">>
TitleSetup == <<"Setup", "!">>
Titles == {TitleAssistant, TitleSetup}

AnchorM2 == <<"m-2">>
AnchorM5 == <<"m-5">>
AnchorIdChoices == {AnchorM2, AnchorM5}

MarkerChoices ==
    {MarkerComment("none", <<>>), MarkerComment("malformed", <<>>),
     MarkerComment("role", <<" ", "Assistant", " ">>),
     MarkerComment("role", <<"user">>), MarkerComment("role", <<" ">>)}

LineChoices ==
    {<<>>, <<Paragraph>>}
        \cup {<<HeadingLine(t)>> : t \in Titles}
        \cup {<<AnchorTag(a)>> : a \in AnchorIdChoices}
        \cup {<<m>> : m \in MarkerChoices}

\* The contents of at most MaxLines lines.
Contents == UNION {[1..n -> LineChoices] : n \in 1..MaxLines}

\* String.prototype.toLowerCase on the tokens of the model.
LowerToken(t) ==
    CASE t = "Assistant" -> "assistant"
      [] t = "Step" -> "step"
      [] t = "Setup" -> "setup"
      [] OTHER -> t

toLowerCase(s) == [i \in 1..Len(s) |-> LowerToken(s[i])]

RECURSIVE trimStart(_)
trimStart(s) ==
    IF s # <<>> /\ Head(s) = " " THEN trimStart(Tail(s)) ELSE s

RECURSIVE trimEnd(_)
trimEnd(s) ==
    IF s # <<>> /\ s[Len(s)] = " "
    THEN trimEnd(SubSeq(s, 1, Len(s) - 1))
    ELSE s

trim(s) == trimEnd(trimStart(s))

\* The tokens that are neither \w, \s nor a hyphen.
SpecialTokens == {"!"}

\* .replace(/\s+/g, "-")
RECURSIVE SpacesToHyphen(_)
SpacesToHyphen(s) ==
    IF s = <<>> THEN <<>>
    ELSE IF Head(s) = " "
         THEN <<"-">> \o SpacesToHyphen(trimStart(Tail(s)))
         ELSE <<Head(s)>> \o SpacesToHyphen(Tail(s))

\* .replace(/-+/g, "-")
RECURSIVE CollapseHyphens(_)
CollapseHyphens(s) ==
    IF s = <<>> THEN <<>>
    ELSE IF Head(s) = "-" /\ Tail(s) # <<>> /\ Head(Tail(s)) = "-"
         THEN CollapseHyphens(Tail(s))
         ELSE <<Head(s)>> \o CollapseHyphens(Tail(s))

\* generateId: the slug of a heading text.
generateId(text) ==
    trim(CollapseHyphens(SpacesToHyphen(
        SelectSeq(toLowerCase(text), LAMBDA t : t \notin SpecialTokens))))

EmptyAnchorMap == [k \in {} |-> <<>>]

\* Map.prototype.set
MapSet(m, key, value) ==
    [k \in DOMAIN m \cup {key} |-> IF k = key THEN value ELSE m[k]]

\* findNextHeadingLine(startIndex): the first line from startIndex on that
\* is neither blank nor starts with "<!--"; <<>> stands for undefined.
RECURSIVE findNextHeadingLine(_, _)
findNextHeadingLine(lines, startIndex) ==
    IF startIndex > Len(lines) THEN <<>>
    ELSE IF \/ lines[startIndex] = <<>>
            \/ lines[startIndex][1].kind = "marker"
         THEN findNextHeadingLine(lines, startIndex + 1)
         ELSE lines[startIndex]

\* The loop of extractAnchorIds from line i on.  A line without an anchor
\* tag cannot match the pattern of the else branch, which starts with one.
RECURSIVE AnchorLoop(_, _, _)
AnchorLoop(lines, i, anchorMap) ==
    IF i > Len(lines) THEN anchorMap
    ELSE LET anchors == SelectSeq(lines[i], LAMBDA it : it.kind = "anchor")
             nextLine == findNextHeadingLine(lines, i + 1)
             isHeading == nextLine # <<>> /\ nextLine[1].kind = "heading"
             headingKey == generateId(trim(nextLine[1].text))
         IN  AnchorLoop(lines, i + 1,
                 IF anchors # <<>> /\ isHeading /\ headingKey # <<>>
                 THEN MapSet(anchorMap, headingKey, anchors[1].text)
                 ELSE anchorMap)

\* The text of the content: its lines joined by newlines.
RECURSIVE Joined(_)
Joined(lines) ==
    IF Len(lines) = 1 THEN lines[1]
    ELSE lines[1] \o <<Newline>> \o Joined(Tail(lines))

extractAnchorIds(lines) ==
    IF Joined(lines) = <<>> THEN EmptyAnchorMap
    ELSE AnchorLoop(lines, 1, EmptyAnchorMap)

RECURSIVE SkipNewlines(_)
SkipNewlines(s) ==
    IF s # <<>> /\ Head(s).kind = "nl" THEN SkipNewlines(Tail(s)) ELSE s

\* .replace(/<a\s+id=["'][^"']+["']\s*(?:\/>|><\/a>)\s*\n?/gi, ""): the tag
\* goes, and the white space after it.
RECURSIVE StripAnchors(_)
StripAnchors(s) ==
    IF s = <<>> THEN <<>>
    ELSE IF Head(s).kind = "anchor"
         THEN StripAnchors(SkipNewlines(Tail(s)))
         ELSE <<Head(s)>> \o StripAnchors(Tail(s))

processedContent(lines) == StripAnchors(Joined(lines))

NoHeading == [has |-> FALSE, text |-> <<>>]
NoRole == [type |-> "undefined", text |-> <<>>]
NullMetadata == [isNull |-> TRUE, role |-> NoRole]

MarkdownSegment(chunk) ==
    [type |-> "markdown", content |-> chunk, heading |-> NoHeading,
     metadata |-> NullMetadata]

\* The headings /^(#{1,6})\s+(.+)$/gm finds in a chunk: the heading items
\* at the start of the chunk or of a line.
HeadingsOf(chunk) ==
    SelectSeq([i \in 1..Len(chunk) |->
                  IF /\ chunk[i].kind = "heading"
                     /\ (i = 1 \/ chunk[i - 1].kind = "nl")
                     /\ chunk[i].text # <<>>
                  THEN chunk[i] ELSE Newline],
              LAMBDA it : it.kind = "heading")

updateLastHeading(markdownChunk, lastHeading) ==
    LET found == HeadingsOf(markdownChunk)
    IN  IF found = <<>> THEN lastHeading
        ELSE [has |-> TRUE, text |-> trim(found[Len(found)].text)]

\* parseAnnotationMetadata: null when the comment holds no {...} or text
\* that JSON.parse rejects.
parseAnnotationMetadata(comment) ==
    IF comment.meta = "role"
    THEN [isNull |-> FALSE, role |-> [type |-> "string", text |-> comment.text]]
    ELSE NullMetadata

\* The loop of segments over the rest of the text; chunk is the text since
\* lastIndex.
RECURSIVE SegmentLoop(_, _, _, _)
SegmentLoop(rest, chunk, lastHeading, segmentsArray) ==
    IF rest = <<>>
    THEN IF chunk # <<>>
         THEN Append(segmentsArray, MarkdownSegment(chunk))
         ELSE segmentsArray
    ELSE IF Head(rest).kind = "marker"
         THEN LET heading == updateLastHeading(chunk, lastHeading)
                  annotation ==
                      [type |-> "annotation", content |-> <<>>,
                       heading |-> heading,
                       metadata |-> parseAnnotationMetadata(Head(rest))]
              IN  SegmentLoop(Tail(rest), <<>>, heading,
                      Append(IF chunk # <<>>
                             THEN Append(segmentsArray, MarkdownSegment(chunk))
                             ELSE segmentsArray,
                             annotation))
         ELSE SegmentLoop(Tail(rest), Append(chunk, Head(rest)), lastHeading,
                          segmentsArray)

\* A faulty variant of segments: a marker ends the segmentation.
segmentsUpToMarker(processed) ==
    LET first == CHOOSE i \in 1..(Len(processed) + 1) :
                    /\ i > Len(processed) \/ processed[i].kind = "marker"
                    /\ \A j \in 1..(i - 1) : processed[j].kind # "marker"
    IN  <<MarkdownSegment(SubSeq(processed, 1, first - 1))>>

\* segments (part_004).
segments(processed) ==
    IF processed = <<>> THEN <<MarkdownSegment(<<>>)>>
    ELSE LET segmentsArray == SegmentLoop(processed, <<>>, NoHeading, <<>>)
         IN  IF segmentsArray = <<>>
             THEN <<MarkdownSegment(processed)>>
             ELSE segmentsArray

\* segments (MarkdownViewer.tsx): the same loop; a placeholder holds neither
\* a heading nor metadata.
segmentsPlain(processed) ==
    LET all == segments(processed)
    IN  [i \in 1..Len(all) |->
            [all[i] EXCEPT !.heading = NoHeading, !.metadata = NullMetadata]]

\* determineStepRole of an annotation segment; <<>> stands for null.
determineStepRole(segment) ==
    LET metadataRole ==
            IF segment.metadata.isNull THEN NoRole ELSE segment.metadata.role
        headingText ==
            IF segment.heading.has
            THEN toLowerCase(trim(segment.heading.text)) ELSE <<>>
        firstHyphen ==
            IF \E i \in 1..Len(headingText) : headingText[i] = "-"
            THEN CHOOSE i \in 1..Len(headingText) :
                    /\ headingText[i] = "-"
                    /\ \A j \in 1..(i - 1) : headingText[j] # "-"
            ELSE Len(headingText) + 1
        roleFromHeading == trim(SubSeq(headingText, 1, firstHyphen - 1))
    IN  IF metadataRole.type = "string" /\ trim(metadataRole.text) # <<>>
        THEN toLowerCase(trim(metadataRole.text))
        ELSE IF headingText = <<>> THEN <<>>
        ELSE toLowerCase(roleFromHeading)

Assistant == <<"assistant">>

\* getHeadingMetadata (part_004); react-markdown passes no id.
getHeadingMetadata(anchorIds, children) ==
    LET textKey == generateId(children)
    IN  IF textKey \in DOMAIN anchorIds
        THEN [id |-> anchorIds[textKey], isAnchorSection |-> TRUE,
              title |-> children]
        ELSE [id |-> textKey, isAnchorSection |-> FALSE, title |-> children]

\* getHeadingId (MarkdownViewer.tsx): the element carries the id only.
getHeadingId(anchorIds, children) ==
    LET textKey == generateId(children)
    IN  [id |-> IF textKey \in DOMAIN anchorIds
                THEN anchorIds[textKey] ELSE textKey,
         isAnchorSection |-> FALSE, title |-> children]

\* A faulty variant of SectionIndexOf: the segment's place in the list.
SectionIndexOfSegment(segs, index) == index

\* The section index of the annotation segment at index.
SectionIndexOf(segs, index) ==
    Cardinality({i \in 1..(index - 1) : segs[i].type = "annotation"}) + 1

\* What segments.map returns for the segment at index: the headings that
\* ReactMarkdown renders for a markdown segment, an AnnotationForm with its
\* section index, or nothing.
Element(copy, anchorIds, segs, index) ==
    LET segment == segs[index]
        found == HeadingsOf(segment.content)
    IN  IF segment.type = "annotation"
        THEN IF copy = "part_004" /\ determineStepRole(segment) # Assistant
             THEN [type |-> "none", sectionIndex |-> 0, headings |-> <<>>]
             ELSE [type |-> "form",
                   sectionIndex |-> SectionIndexOf(segs, index),
                   headings |-> <<>>]
        ELSE [type |-> "markdown", sectionIndex |-> 0,
              headings |->
                  [h \in 1..Len(found) |->
                      IF copy = "part_004"
                      THEN getHeadingMetadata(anchorIds, found[h].text)
                      ELSE getHeadingId(anchorIds, found[h].text)]]

\* One render of the viewer.
Rendered(copy, lines) ==
    LET anchorIds == extractAnchorIds(lines)
        segs == IF copy = "part_004"
                THEN segments(processedContent(lines))
                ELSE segmentsPlain(processedContent(lines))
    IN  [rendered |-> TRUE, segments |-> segs,
         elements |-> [i \in 1..Len(segs) |->
                          Element(copy, anchorIds, segs, i)]]

ViewerRender ==
    /\ ~view.rendered
    /\ view' = Rendered(component, content)
    /\ UNCHANGED <<content, component, noteVars, formVars, proxyVars,
                   pageVars>>

(***************************************************************************)
(* Specification SpecView: either copy of the viewer renders any content   *)
(* of at most MaxLines lines.                                              *)
(***************************************************************************)
InitView ==
    /\ content \in Contents
    /\ component \in Components
    /\ view = NotRendered
    /\ NoProxy
    /\ NoPage
    /\ airtable = [r \in {} |-> [task |-> T42, notes |-> JsUndefined]]
    /\ calls = <<>>
    /\ log = <<>>
    /\ form = InitialForm
    /\ saving = null
    /\ error = null
    /\ isPrefilled = FALSE
    /\ props = FormProps(SelectedTask(T42, JsUndefined), Url42, 1)
    /\ refs = InitialRefs
    /\ job = NoJob
    /\ edits = 0
    /\ settled = NoneSettled
    /\ overlapped = FALSE

NextView == ViewerRender

SpecView == InitView /\ [][NextView]_vars

(***************************************************************************)
(* The proxy: the Lambda handler and the two Vercel handlers of            *)
(* lambda/airtable-proxy.js, the upstream table they query and the client  *)
(* functions of src/lib/airtable.ts that call them.  A handler runs up to  *)
(* its first return or its first fetch; the answer of the upstream lets it *)
(* run to its return.                                                      *)
(***************************************************************************)
Handlers == {"lambda", "vercelRecord", "vercelUniqueId"}

Methods == {"GET", "PATCH", "POST", "OPTIONS"}

\* The path of a request to the Lambda handler, as its segments; a Vercel
\* handler is reached by the path of its file only.
LambdaPaths ==
    {<<"records-by-unique-id">>, <<"record-by-task-number">>,
     <<"record", "recA">>, <<>>}

PathOf(h) ==
    CASE h = "vercelRecord" -> {<<"record", "recA">>}
      [] h = "vercelUniqueId" -> {<<"records-by-unique-id">>}
      [] OTHER -> LambdaPaths

\* String.prototype.includes on a path.
includes(path, segment) == \E i \in 1..Len(path) : path[i] = segment

\* The values of a query parameter; "" is a parameter that is absent or
\* empty.
UniqueIds == {"", "u1", "u9"}
TaskNumbers == {"", "42"}

\* Where a request names the record to update: nowhere, in the query or
\* path parameters, or in its JSON body.
RecordIdPlaces == {"none", "query", "body"}

\* The body of a request: none, text that is no JSON, the JSON text null,
\* a JSON object without fields, and JSON objects whose fields is a falsy
\* value ("" or 0 or false or null), a non-empty string, the empty object
\* or a non-empty object.
Bodies ==
    {"none", "malformed", "null", "noFields", "falsyFields", "textFields",
     "emptyFields", "fields"}

\* What a Vercel handler sees of a text that is no JSON is decided by the
\* body parser of the platform, which is no part of the program.
BodiesOf(h) == IF h = "lambda" THEN Bodies ELSE Bodies \ {"malformed"}

\* The requests any HTTP client can send to a handler.
Requests ==
    UNION {[from : {"other"}, handler : {h}, method : Methods,
            path : PathOf(h), uniqueId : UniqueIds, taskNumber : TaskNumbers,
            recordId : RecordIdPlaces, body : BodiesOf(h)] : h \in Handlers}

\* The records of the upstream table.
TableRecord(id, uniqueId, task, fields) ==
    [id |-> id, uniqueId |-> uniqueId, taskNumber |-> task, fields |-> fields]

RecA == TableRecord("recA", "u1", "42", "{notes}")
RecB == TableRecord("recB", "u1", "42", "undefined")
RecC == TableRecord("recC", "u2", "7", "{notes}")

Tables == {<<>>, <<RecC>>, <<RecA, RecC>>, <<RecB, RecC, RecA>>}

\* A record as the upstream lists it.
Listed(r) == [id |-> r.id, createdTime |-> "t0", fields |-> r.fields]

\* The answer of the upstream to filterByFormula={field} = "value".
Matching(tbl, field, value) ==
    LET hits == SelectSeq(tbl, LAMBDA r : r[field] = value)
    IN  [i \in 1..Len(hits) |-> Listed(hits[i])]

\* ({ id: record.id, fields: record.fields || {} })
Reduced(record) ==
    [id |-> record.id,
     fields |-> IF record.fields = "undefined" THEN "{}" ELSE record.fields]

Respond(status, kind, records, err) ==
    [respond |-> TRUE, status |-> status,
     body |-> [kind |-> kind, records |-> records, error |-> err, details |-> ""],
     fetch |-> [op |-> "", field |-> "", value |-> ""]]

Fetch(op, field, value) ==
    [respond |-> FALSE, status |-> 0, body |-> NoBody,
     fetch |-> [op |-> op, field |-> field, value |-> value]]

KeyNotConfigured == "Airtable API key not configured"

\* A faulty variant of ParsedBody: text that is no JSON leaves no object to
\* read from.
ParsedBodyOrNull(body) ==
    IF body = "none" THEN "{}" ELSE IF body = "malformed" THEN "null" ELSE body

\* let body = {}; if (event.body) { try { body = JSON.parse(event.body) }
\* catch (e) {} }: the value the Lambda handler works with.
ParsedBody(body) == IF body \in {"none", "malformed"} THEN "{}" ELSE body

\* The body is a JSON object.
IsObject(body) == body \notin {"none", "malformed", "null"}

\* body.fields of a body that is an object.
FieldsOf(body) ==
    CASE body = "falsyFields" -> "falsy"
      [] body = "textFields" -> "text"
      [] body = "emptyFields" -> "{}"
      [] body = "fields" -> "{..}"
      [] OTHER -> "undefined"

\* A value that is truthy in a condition.
TruthyFields(value) == value \in {"text", "{}", "{..}"}

\* typeof value === "object" of a truthy value.
TypeofObject(value) == value \in {"{}", "{..}"}

\* body.recordId
BodyRecordId(req) == req.recordId = "body" /\ IsObject(req.body)

\* The answer of the catch block of a handler.
Caught == Respond(500, "error", <<>>, "Internal server error")

\* The routes of exports.handler, up to the first return or fetch.
Routes(req) ==
    IF includes(req.path, "records-by-unique-id") \/ req.uniqueId # ""
    THEN IF req.uniqueId = ""
         THEN Respond(400, "error", <<>>, "uniqueId parameter is required")
         ELSE Fetch("filter", "uniqueId", req.uniqueId)
    ELSE IF includes(req.path, "record-by-task-number") \/ req.taskNumber # ""
    THEN IF req.taskNumber = ""
         THEN Respond(400, "error", <<>>, "taskNumber parameter is required")
         ELSE Fetch("filter", "taskNumber", req.taskNumber)
    ELSE IF ParsedBody(req.body) = "null"
    THEN \* body.recordId or body.fields of null throws
         Caught
    ELSE IF req.method = "PATCH" \/ BodyRecordId(req)
    THEN IF ~(req.recordId = "query" \/ BodyRecordId(req))
         THEN Respond(400, "error", <<>>, "recordId is required")
         ELSE IF ~TruthyFields(FieldsOf(ParsedBody(req.body)))
         THEN Respond(400, "error", <<>>,
                      "fields object is required in request body")
         ELSE Fetch("patch", "id", "recA")
    ELSE Respond(200, "message", <<>>, "")

\* A faulty variant of handler: the credential check comes first.
handlerKeyFirst(req, key) ==
    IF ~key THEN Respond(500, "error", <<>>, KeyNotConfigured)
    ELSE IF req.method = "OPTIONS" THEN Respond(200, "message", <<>>, "")
    ELSE Routes(req)

\* exports.handler up to its first return or fetch.
handler(req, key) ==
    IF req.method = "OPTIONS" THEN Respond(200, "message", <<>>, "")
    ELSE IF ~key THEN Respond(500, "error", <<>>, KeyNotConfigured)
    ELSE Routes(req)

\* The Vercel handler of /api/record/[recordId] up to its first return or
\* fetch.  Destructuring the body of a request without one throws outside
\* the try: the platform answers 500.
recordHandler(req, key) ==
    IF req.method = "OPTIONS" THEN Respond(200, "empty", <<>>, "")
    ELSE IF req.method # "PATCH"
    THEN Respond(405, "error", <<>>, "Method not allowed")
    ELSE IF req.recordId # "query"
    THEN Respond(400, "error", <<>>, "recordId is required")
    ELSE IF ~IsObject(req.body) THEN Respond(500, "crash", <<>>, "")
    ELSE IF ~(TruthyFields(FieldsOf(req.body)) /\ TypeofObject(FieldsOf(req.body)))
    THEN Respond(400, "error", <<>>, "fields object is required")
    ELSE IF ~key THEN Respond(500, "error", <<>>, KeyNotConfigured)
    ELSE Fetch("patch", "id", "recA")

\* The Vercel handler of /api/records-by-unique-id up to its first return
\* or fetch.
recordsByUniqueIdHandler(req, key) ==
    IF req.method = "OPTIONS" THEN Respond(200, "empty", <<>>, "")
    ELSE IF req.method # "GET"
    THEN Respond(405, "error", <<>>, "Method not allowed")
    ELSE IF req.uniqueId = ""
    THEN Respond(400, "error", <<>>, "uniqueId parameter is required")
    ELSE IF ~key THEN Respond(500, "error", <<>>, KeyNotConfigured)
    ELSE Fetch("filter", "uniqueId", req.uniqueId)

Decide(req, key) ==
    CASE req.handler = "lambda" -> handler(req, key)
      [] req.handler = "vercelRecord" -> recordHandler(req, key)
      [] OTHER -> recordsByUniqueIdHandler(req, key)

\* The answers of the upstream: the records asked for, a status that is
\* not ok together with the text of its body, or nothing: the fetch fails.
Found(records) ==
    [kind |-> "ok", status |-> 200, records |-> records, text |-> ""]

NotOk(status, text) ==
    [kind |-> "notOk", status |-> status, records |-> <<>>, text |-> text]

Failed == [kind |-> "failed", status |-> 0, records |-> <<>>, text |-> ""]

\* The statuses that are not ok and the bodies that come with them.
Refusals ==
    {NotOk(429, "{rate}"), NotOk(422, "{formula}"), NotOk(422, ""),
     NotOk(503, "unavailable")}

\* What the upstream can answer to a fetch: the matching records, a body
\* without records, a status that is not ok, or nothing.
Answers(tbl, fetch) ==
    IF fetch.op = "filter"
    THEN {Found(Matching(tbl, fetch.field, fetch.value)),
          [kind |-> "okBare", status |-> 200, records |-> <<>>, text |-> ""],
          Failed} \cup Refusals
    ELSE {IF Matching(tbl, "id", fetch.value) # <<>>
          THEN Found(Matching(tbl, "id", fetch.value))
          ELSE NotOk(404, "{not found}"),
          Failed} \cup Refusals

\* response.ok
Ok(status) == status >= 200 /\ status <= 299

\* A response of a handler.
Response(status, kind, records, err, details) ==
    [status |-> status,
     body |-> [kind |-> kind, records |-> records, error |-> err,
               details |-> details]]

\* A faulty variant of ErrorEnvelope: every refusal of the upstream is
\* answered as a bad gateway, its body left out.
ErrorEnvelopeBadGateway(answer) ==
    Response(502, "error", <<>>, "Airtable API error", "")

\* if (!response.ok): { statusCode: response.status, body: { error,
\* details: errorText } }
ErrorEnvelope(answer) ==
    Response(answer.status, "error", <<>>, "Airtable API error", answer.text)

InternalError == Response(500, "error", <<>>, "Internal server error", "")

\* A faulty variant of RecordsResponse: no match is answered with null.
RecordsResponseOrNull(records) ==
    IF records = <<>>
    THEN Response(200, "null", <<>>, "", "")
    ELSE Response(200, "array", records, "", "")

\* The answer of the lookup by Unique ID to the records of the upstream.
RecordsResponse(records) ==
    Response(200, "array", [i \in 1..Len(records) |-> Reduced(records[i])],
             "", "")

\* A faulty variant of RecordResponse: no match is answered with 404.
RecordResponseOrNotFound(records) ==
    IF records # <<>>
    THEN Response(200, "record", <<Reduced(records[1])>>, "", "")
    ELSE Response(404, "error", <<>>, "Not found", "")

\* The answer of the lookup by Task Number to the records of the upstream.
RecordResponse(records) ==
    IF records # <<>>
    THEN Response(200, "record", <<Reduced(records[1])>>, "", "")
    ELSE Response(200, "null", <<>>, "", "")

\* The rest of a handler once the upstream has answered its fetch.
Completed(fetch, answer) ==
    CASE answer.kind = "failed" -> InternalError
      [] ~Ok(answer.status) -> ErrorEnvelope(answer)
      [] fetch.op = "patch" -> Response(200, "data", answer.records, "", "")
      [] fetch.field = "uniqueId" -> RecordsResponse(answer.records)
      [] OTHER -> RecordResponse(answer.records)

\* The table after the upstream has applied a PATCH of the record.
Patched(tbl, id) ==
    [i \in 1..Len(tbl) |->
        IF tbl[i].id = id THEN [tbl[i] EXCEPT !.fields = "{patched}"] ELSE tbl[i]]

ProxyFrame == UNCHANGED <<apiKey, noteVars, formVars, viewVars, pageVars>>

Receive(req) ==
    /\ stage = "idle"
    /\ request' = req
    /\ stage' = "received"
    /\ UNCHANGED <<table, upstream, response, result>>
    /\ ProxyFrame

\* getRecordsByUniqueId(uniqueId) sends its request.
CallGetRecordsByUniqueId(h, uniqueId) ==
    Receive([from |-> "getRecordsByUniqueId", handler |-> h, method |-> "GET",
             path |-> <<"records-by-unique-id">>, uniqueId |-> uniqueId,
             taskNumber |-> "", recordId |-> "none", body |-> "none"])

\* getRecordByTaskNumber(taskNumber) sends its request.
CallGetRecordByTaskNumber(tn) ==
    Receive([from |-> "getRecordByTaskNumber", handler |-> "lambda",
             method |-> "GET", path |-> <<"record-by-task-number">>,
             uniqueId |-> "", taskNumber |-> tn, recordId |-> "none",
             body |-> "none"])

\* The handler runs up to its first return or fetch.
HandlerRuns ==
    LET d == Decide(request, apiKey)
    IN  /\ stage = "received"
        /\ IF d.respond
           THEN /\ response' = [status |-> d.status, body |-> d.body]
                /\ stage' = "responded"
                /\ UNCHANGED upstream
           ELSE /\ upstream' = [upstream EXCEPT !.sent = Append(@, d.fetch)]
                /\ stage' = "upstream"
                /\ UNCHANGED response
        /\ UNCHANGED <<table, request, result>>
        /\ ProxyFrame

\* The upstream answers the fetch and the handler runs to its return.
UpstreamAnswers ==
    /\ stage = "upstream"
    /\ LET fetch == upstream.sent[Len(upstream.sent)]
       IN  \E answer \in Answers(table, fetch) :
              /\ upstream' = [upstream EXCEPT !.answer = answer]
              /\ response' = Completed(fetch, answer)
              /\ table' = IF fetch.op = "patch" /\ answer.kind = "ok"
                          THEN Patched(table, fetch.value) ELSE table
    /\ stage' = "responded"
    /\ UNCHANGED <<request, result>>
    /\ ProxyFrame

Thrown(resp) ==
    [kind |-> "threw", records |-> <<>>,
     message |-> IF resp.body.kind = "error" THEN resp.body.error ELSE "API error"]

\* getRecordsByUniqueId from the response on.
getRecordsByUniqueId(resp) ==
    IF ~Ok(resp.status) THEN Thrown(resp)
    ELSE [kind |-> "array",
          records |-> IF resp.body.kind = "array" THEN resp.body.records ELSE <<>>,
          message |-> ""]

\* getRecordByTaskNumber from the response on: it returns the parsed body.
getRecordByTaskNumberResult(resp) ==
    IF ~Ok(resp.status) THEN Thrown(resp)
    ELSE [kind |-> resp.body.kind, records |-> resp.body.records, message |-> ""]

\* The client function gets the response and returns or throws.
ClientReturns ==
    /\ stage = "responded"
    /\ request.from # "other"
    /\ result' = IF request.from = "getRecordsByUniqueId"
                 THEN getRecordsByUniqueId(response)
                 ELSE getRecordByTaskNumberResult(response)
    /\ stage' = "returned"
    /\ UNCHANGED <<table, request, upstream, response>>
    /\ ProxyFrame

(***************************************************************************)
(* Specification SpecProxy: one request to one of the handlers, from a     *)
(* client function or from any other HTTP client, with the API key         *)
(* configured or not, against any of the tables.                           *)
(***************************************************************************)
InitProxy ==
    /\ apiKey \in BOOLEAN
    /\ table \in Tables
    /\ request = NoRequest
    /\ stage = "idle"
    /\ upstream = [sent |-> <<>>, answer |-> NoAnswer]
    /\ response = [status |-> 0, body |-> NoBody]
    /\ result = [kind |-> "none", records |-> <<>>, message |-> ""]
    /\ NoViewer
    /\ NoPage
    /\ airtable = [r \in {} |-> [task |-> T42, notes |-> JsUndefined]]
    /\ calls = <<>>
    /\ log = <<>>
    /\ form = InitialForm
    /\ saving = null
    /\ error = null
    /\ isPrefilled = FALSE
    /\ props = FormProps(SelectedTask(T42, JsUndefined), Url42, 1)
    /\ refs = InitialRefs
    /\ job = NoJob
    /\ edits = 0
    /\ settled = NoneSettled
    /\ overlapped = FALSE

NextProxy ==
    \/ \E req \in Requests : Receive(req)
    \/ \E h \in {"lambda", "vercelUniqueId"}, uniqueId \in UniqueIds :
          CallGetRecordsByUniqueId(h, uniqueId)
    \/ \E tn \in TaskNumbers : CallGetRecordByTaskNumber(tn)
    \/ HandlerRuns
    \/ UpstreamAnswers
    \/ ClientReturns

SpecProxy == InitProxy /\ [][NextProxy]_vars

(***************************************************************************)
(* The page (src/pages/Index.tsx): the list of the tasks of a user, the    *)
(* click on a task, the load of its document and the form of the document  *)
(* that is displayed.  A URL is its host and its path: the host a sequence *)
(* of tokens, the path the sequence of its segments.                       *)
(***************************************************************************)
Link(host, path) == [kind |-> "url", host |-> host, path |-> path]

\* A text that new URL() rejects.
NotAUrl == [kind |-> "text", host |-> <<>>, path |-> <<>>]

GitHubCom == <<"github", ".", "com">>

RawHost == <<"raw", ".", "githubusercontent", ".", "com">>

\* The hosts of the links: GitHub's, two others whose names contain
\* "github.com", and one whose name does not.
WwwGitHubCom == <<"www", ".">> \o GitHubCom
LookalikeHost == GitHubCom \o <<".", "evil", ".", "net">>
NotGitHubCom == <<"not">> \o GitHubCom
GitLabCom == <<"gitlab", ".", "com">>

\* url.hostname is github.com or a subdomain of it.
IsGitHubHost(host) ==
    \/ host = GitHubCom
    \/ /\ Len(host) > Len(GitHubCom) + 1
       /\ SubSeq(host, Len(host) - Len(GitHubCom), Len(host)) = <<".">> \o GitHubCom

\* String.prototype.includes on a sequence of tokens.
Contains(text, part) ==
    \E i \in 0..(Len(text) - Len(part)) : SubSeq(text, i + 1, i + Len(part)) = part

Blob42 == <<"o", "r", "blob", "main", "42.md">>
Blob7 == <<"o", "r", "blob", "main", "7.md">>

\* The links of the task of number 42 and of the task of number 7.
Links42 ==
    {Link(GitHubCom, Blob42), Link(WwwGitHubCom, <<"o", "r.git">>),
     Link(GitLabCom, Blob42), Link(LookalikeHost, Blob42),
     Link(NotGitHubCom, Blob42),
     Link(GitHubCom, <<"o", "r", "blob", "main", "blob", "42.md">>),
     Link(GitHubCom, <<"o">>), NotAUrl, NoLink}

Links7 == {Link(GitHubCom, Blob7), Link(GitLabCom, Blob7), NoLink}

\* The places of "/blob/" in a path: a segment blob that another follows.
BlobPlaces(path) == {i \in 1..(Len(path) - 1) : path[i] = "blob"}

FirstBlob(path) == CHOOSE i \in BlobPlaces(path) : \A j \in BlobPlaces(path) : i <= j

\* pathname.split("/blob/").length !== 2: a second "/blob/" starts after
\* the first one has ended.
SplitsInTwo(path) ==
    ~\E j \in BlobPlaces(path) : j >= FirstBlob(path) + 2

\* repo.replace(/\.git$/, "")
CleanRepo(repo) == IF repo = "r.git" THEN "r" ELSE repo

Throws(message) == [ok |-> FALSE, message |-> message, url |-> NoLink]

Returns(path) == [ok |-> TRUE, message |-> "", url |-> Link(RawHost, path)]

\* convertToRawUrl: what it returns or throws.  The message of the error
\* that new URL() throws is the browser's: it is rethrown when it includes
\* "Invalid" and replaced by "Invalid URL format" when not.
convertToRawUrl(link) ==
    IF link.kind = "text"
    THEN {Throws("Invalid URL"), Throws("Invalid URL format")}
    ELSE IF ~Contains(link.host, GitHubCom)
    THEN \* "URL must be a GitHub URL" does not include "Invalid"
         {Throws("Invalid URL format")}
    ELSE IF BlobPlaces(link.path) # {}
    THEN IF ~SplitsInTwo(link.path)
         THEN {Throws("Invalid GitHub blob URL format")}
         ELSE LET i == FirstBlob(link.path)
              IN  {Returns(SubSeq(link.path, 1, i - 1)
                            \o SubSeq(link.path, i + 1, Len(link.path)))}
    ELSE IF Len(link.path) >= 2 /\ link.path[1] # "" /\ link.path[2] # ""
    THEN {Returns(<<link.path[1], CleanRepo(link.path[2]), "main", "README.md">>)}
    ELSE {Throws("Invalid GitHub URL format")}

ErrorToast(description) == [title |-> "Error", description |-> description]

SuccessToast == [title |-> "Success", description |-> "Markdown file loaded successfully"]

\* {markdown && !error && <MarkdownViewer .../>}
Displayed == markdown # <<>> /\ pageError = null

\* The task number of the form: selectedTask?.fields["Task Number"], or the
\* digits of the file name N.md of the url.
FileTaskNumber(link) ==
    IF link.kind # "url" \/ link.path = <<>> THEN ""
    ELSE CASE link.path[Len(link.path)] = "42.md" -> "42"
           [] link.path[Len(link.path)] = "7.md" -> "7"
           [] OTHER -> ""

PageTaskNumber ==
    IF selectedTask.taskNumber # "" THEN selectedTask.taskNumber
    ELSE FileTaskNumber(selectedTaskLink)

\* The value of the field of section 1 in the Annotation Notes of a task
\* of the list, as annotationDataBySection hands it to the form.
PrefilledValue(task) == task.notes

\* handleTaskClick, with the synchronous part of fetchMarkdown: up to the
\* fetch, or to the end when convertToRawUrl throws.
handleTaskClick(task) ==
    /\ clicks < MaxClicks
    /\ clicks' = clicks + 1
    /\ IF task.link.kind = "absent"
       THEN /\ toast' = ErrorToast("This task does not have a link")
            /\ UNCHANGED <<selectedTask, selectedTaskLink, markdown, loading,
                           pageError, fetches, network, shown>>
       ELSE /\ selectedTask' = task
            /\ markdown' = <<>>
            /\ shown' = ""
            /\ \E out \in convertToRawUrl(task.link) :
                  IF out.ok
                  THEN /\ fetches' = fetches \cup
                              {[url |-> task.link, raw |-> out.url, click |-> clicks']}
                       /\ network' = Append(network, [host |-> out.url.host,
                                                       link |-> task.link])
                       /\ loading' = TRUE
                       /\ pageError' = null
                       /\ UNCHANGED toast
                  ELSE /\ pageError' = out.message
                       /\ toast' = ErrorToast(out.message)
                       /\ loading' = FALSE
                       /\ UNCHANGED <<fetches, network>>
            /\ UNCHANGED selectedTaskLink
    /\ UNCHANGED <<tasks, saved>>
    /\ UNCHANGED <<noteVars, formVars, viewVars, proxyVars>>

\* The texts that a raw URL can deliver: the document at its path, or an
\* empty file.
Texts(raw) == {raw.path, <<>>}

\* The fetch of fetchMarkdown is answered ok: the rest of its try block and
\* its finally block.  The viewer gets the text and the link, and the form
\* is filled from the selected task.
FetchSucceeds(f) ==
    /\ f \in fetches
    /\ fetches' = fetches \ {f}
    /\ \E text \in Texts(f.raw) : markdown' = text
    /\ selectedTaskLink' = f.url
    /\ toast' = SuccessToast
    /\ loading' = FALSE
    /\ shown' = PrefilledValue(selectedTask)
    /\ UNCHANGED <<tasks, selectedTask, pageError, network, saved, clicks>>
    /\ UNCHANGED <<noteVars, formVars, viewVars, proxyVars>>

FetchMessages == {"Failed to fetch markdown file: 404 Not Found", "Failed to fetch"}

\* The fetch is answered with a status that is not ok, or fails: the catch
\* block and the finally block.
FetchFails(f) ==
    /\ f \in fetches
    /\ fetches' = fetches \ {f}
    /\ \E message \in FetchMessages :
          /\ pageError' = message
          /\ toast' = ErrorToast(message)
    /\ loading' = FALSE
    /\ UNCHANGED <<tasks, selectedTask, selectedTaskLink, markdown, network,
                   shown, saved, clicks>>
    /\ UNCHANGED <<noteVars, formVars, viewVars, proxyVars>>

\* The values of the field.
FieldValues == {"v1", "v2"}

\* The user changes the field of the form of the document that is
\* displayed, and the save of the new value succeeds: the stored map of the
\* record of the form's task number holds the value.
SaveSucceeds(value) ==
    /\ Displayed
    /\ Len(saved) < MaxSaves
    /\ value # shown
    /\ shown' = value
    /\ saved' = Append(saved, [taskNumber |-> PageTaskNumber, value |-> value,
                               document |-> markdown, link |-> selectedTaskLink])
    /\ UNCHANGED <<tasks, selectedTask, selectedTaskLink, markdown, loading,
                   pageError, toast, fetches, network, clicks>>
    /\ UNCHANGED <<noteVars, formVars, viewVars, proxyVars>>

(***************************************************************************)
(* Specification SpecPage: the list holds the task of number 42 and the    *)
(* task of number 7 as fetchTasksForUser has stored them; the user clicks  *)
(* tasks and changes the field of the form in any order, and the fetches   *)
(* are answered in any order.                                              *)
(***************************************************************************)
PageTask(id, number, link, notes) ==
    [id |-> id, taskNumber |-> number, link |-> link, notes |-> notes]

InitPage ==
    /\ \E l42 \in Links42, l7 \in Links7, notes \in {"", "v0"} :
          tasks = <<PageTask("recA", "42", l42, notes), PageTask("recB", "7", l7, "")>>
    /\ selectedTask = NoTask
    /\ selectedTaskLink = NoLink
    /\ markdown = <<>>
    /\ loading = FALSE
    /\ pageError = null
    /\ toast = NoToast
    /\ fetches = {}
    /\ network = <<>>
    /\ shown = ""
    /\ saved = <<>>
    /\ clicks = 0
    /\ NoViewer
    /\ NoProxy
    /\ airtable = [r \in {} |-> [task |-> T42, notes |-> JsUndefined]]
    /\ calls = <<>>
    /\ log = <<>>
    /\ form = InitialForm
    /\ saving = null
    /\ error = null
    /\ isPrefilled = FALSE
    /\ props = FormProps(SelectedTask(T42, JsUndefined), Url42, 1)
    /\ refs = InitialRefs
    /\ job = NoJob
    /\ edits = 0
    /\ settled = NoneSettled
    /\ overlapped = FALSE

NextPage ==
    \/ \E i \in 1..Len(tasks) : handleTaskClick(tasks[i])
    \/ \E f \in fetches : FetchSucceeds(f)
    \/ \E f \in fetches : FetchFails(f)
    \/ \E value \in FieldValues : SaveSucceeds(value)

SpecPage == InitPage /\ [][NextPage]_vars

(***************************************************************************)
(* Properties of updateAnnotationNote (specification Spec).                *)
(***************************************************************************)
\* The place of the event of call c in the log, or 0.
Pos(c, event) ==
    IF \E i \in DOMAIN log : log[i] = <<c, event>>
    THEN CHOOSE i \in DOMAIN log : log[i] = <<c, event>>
    ELSE 0

\* The PATCHes applied so far.
Patches == {i \in DOMAIN log : log[i][2] = "patch"}

\* The field holds nothing, text that is no JSON, or a map (as text or as an
\* object).  JSON text that encodes no map, and an array, are the remaining
\* contents.
MapLike(notes) ==
    /\ ~(notes.t = "string" /\ notes.text.kind \in {"array", "null", "number"})
    /\ notes.t # "array"

\* The map the stored field of task 42 holds.
Stored == MapOf(airtable["rec42"].notes)

\* Calls 1 and 2 have run one after the other and nothing else has written.
Sequential ==
    /\ Len(calls) >= 2
    /\ calls[1].pc = "returned" /\ calls[2].pc = "returned"
    /\ Pos(1, "lookup") > 0
    /\ Pos(1, "lookup") < Pos(1, "patch")
    /\ Pos(1, "patch") < Pos(2, "start")
    /\ Pos(2, "start") < Pos(2, "lookup")
    /\ Pos(2, "lookup") < Pos(2, "patch")
    /\ Cardinality(Patches) = 2

\* C1: when two calls on an existing record run one after the other on a
\* field that held a map (or nothing, or unparsable text), the stored map
\* holds the second call's key with its value, the first call's key with its
\* value when the keys differ, and every other key it held before with its
\* old value.
C1_SequentialCallsCompose ==
    (Sequential /\ MapLike(calls[1].record.notes)) =>
        LET before == MapOf(calls[1].record.notes)
            k1 == calls[1].key
            k2 == calls[2].key
        IN  /\ airtable["rec42"].notes.t = "string"
            /\ airtable["rec42"].notes.text.kind = "map"
            /\ k2 \in DOMAIN Stored /\ Stored[k2] = calls[2].value
            /\ k1 # k2 => (k1 \in DOMAIN Stored /\ Stored[k1] = calls[1].value)
            /\ \A k \in DOMAIN before \ {k1, k2} :
                  k \in DOMAIN Stored /\ Stored[k] = before[k]
            /\ DOMAIN Stored = DOMAIN before \cup {k1, k2}

\* Two sequential calls with different keys on a record that held other keys.
C1_Witness ==
    /\ Sequential
    /\ calls[1].key # calls[2].key
    /\ MapOf(calls[1].record.notes) # EmptyMap
    /\ calls[1].key \notin DOMAIN MapOf(calls[1].record.notes)

\* Calls a and b have both looked the record up before either PATCH, and the
\* PATCH of a was applied before that of b; nothing else has written.
Raced(a, b) ==
    /\ calls[a].key # calls[b].key
    /\ calls[a].pc \notin {"lookup", "patch"}
    /\ calls[b].pc \notin {"lookup", "patch"}
    /\ Pos(a, "lookup") > 0 /\ Pos(b, "lookup") > 0
    /\ Pos(a, "lookup") < Pos(a, "patch")
    /\ Pos(b, "lookup") < Pos(a, "patch")
    /\ Pos(a, "patch") < Pos(b, "patch")
    /\ Cardinality(Patches) = 2

\* C2: when both lookups of two calls with different keys precede both
\* PATCHes, both calls return without error and the stored map is the map
\* both calls saw plus the entry of the call whose PATCH came last: the
\* entry of the other call is not in it.
C2_LastPatchWins ==
    \A a, b \in DOMAIN calls :
        (Raced(a, b) /\ MapLike(calls[a].record.notes)) =>
            LET before == MapOf(calls[a].record.notes)
            IN  /\ calls[a].pc = "returned" /\ calls[b].pc = "returned"
                /\ calls[b].record.notes = calls[a].record.notes
                /\ Stored = Put(before, calls[b].key, calls[b].value)
                /\ (calls[a].key \in DOMAIN Stored) => 
                      /\ calls[a].key \in DOMAIN before
                      /\ Stored[calls[a].key] = before[calls[a].key]
                      /\ Stored[calls[a].key] # calls[a].value

\* Two calls have raced and the key of the first is not in the stored map.
C2_Witness ==
    \E a, b \in DOMAIN calls :
        /\ Raced(a, b)
        /\ MapLike(calls[a].record.notes)
        /\ calls[a].key \notin DOMAIN Stored
        /\ calls[a].pc = "returned"

\* C3: a call whose lookup is answered with no record throws the "no record"
\* error without sending a PATCH and without changing the table, and a call
\* that has thrown does nothing further.
C3_NoRecordNoPatch ==
    [][\A c \in DOMAIN calls :
          /\ ( /\ calls[c].pc = "lookup"
               /\ log' = Append(log, <<c, "lookup">>)
               /\ ~getRecordByTaskNumber(airtable, calls[c].taskNumber).found )
             => /\ calls'[c].pc = "threw"
                /\ calls'[c].err = NoRecordError
                /\ calls'[c].body = EmptyText
                /\ airtable' = airtable
          /\ calls[c].pc = "threw"
             => /\ calls'[c] = calls[c]
                /\ Pos(c, "patch") = 0]_vars

\* A call has thrown for want of a record.
C3_Witness ==
    \E c \in DOMAIN calls :
        /\ calls[c].pc = "threw"
        /\ calls[c].err = NoRecordError
        /\ Pos(c, "lookup") > 0

\* C4: a call whose lookup is answered with a record sends a PATCH whatever
\* the field holds of: nothing, a map as text, a map object, or text that
\* does not parse.  The PATCHed text serialises the old map with the call's
\* entry put in; for text that does not parse it serialises the call's entry
\* alone.  When the PATCH is answered the call returns and the field holds
\* the PATCHed text.
C4_ToleratesFieldContents ==
    [][\A c \in DOMAIN calls :
          /\ ( /\ calls[c].pc = "lookup"
               /\ log' = Append(log, <<c, "lookup">>)
               /\ getRecordByTaskNumber(airtable, calls[c].taskNumber).found
               /\ MapLike(airtable["rec42"].notes) )
             => LET notes == airtable["rec42"].notes
                    unparsable == notes.t = "string" /\ notes.text.kind # "map"
                    old == IF unparsable THEN EmptyMap ELSE MapOf(notes)
                IN  /\ calls'[c].pc = "patch"
                    /\ calls'[c].body =
                          Text("map", Put(old, calls[c].key, calls[c].value))
                    /\ unparsable =>
                          DOMAIN calls'[c].body.m = {calls[c].key}
          /\ ( /\ calls[c].pc = "patch"
               /\ log' = Append(log, <<c, "patch">>) )
             => /\ calls'[c].pc = "returned"
                /\ airtable'["rec42"].notes = JsString(calls[c].body)]_vars

\* A call on a record whose field held text that does not parse has returned.
C4_Witness ==
    \E c \in DOMAIN calls :
        /\ calls[c].pc = "returned"
        /\ calls[c].record.notes = JsString(GarbageText)
        /\ DOMAIN Stored = {calls[c].key}

(***************************************************************************)
(* Properties of the annotation form (specification SpecForm).             *)
(***************************************************************************)
\* The value of a field as the user has set it in the fields f: the category
\* is the typed label when "other" is chosen and a label is typed.
UserValue(f, fieldName) ==
    CASE fieldName = "actionCategory" ->
            StrV(IF f.actionCategory = "other" /\ f.otherActionCategory # ""
                 THEN f.otherActionCategory ELSE f.actionCategory)
      [] fieldName = "actionCorrectness" -> StrV(f.actionCorrectness)
      [] fieldName = "reasoningQuality" -> StrV(f.reasoningQuality)
      [] fieldName = "sandboxResponse" -> StrV(f.sandboxResponse)
      [] fieldName = "errorFlags" -> ArrV(SelectedFlags(f.errorFlags))
      [] OTHER -> StrV(f.otherErrorExplanation)

\* The part of the fields f that the controls of a field show.
Shown(f, fieldName) ==
    CASE fieldName = "actionCategory" ->
            [InitialForm EXCEPT !.actionCategory = f.actionCategory,
                                !.otherActionCategory = f.otherActionCategory]
      [] fieldName = "actionCorrectness" ->
            [InitialForm EXCEPT !.actionCorrectness = f.actionCorrectness]
      [] fieldName = "reasoningQuality" ->
            [InitialForm EXCEPT !.reasoningQuality = f.reasoningQuality]
      [] fieldName = "sandboxResponse" ->
            [InitialForm EXCEPT !.sandboxResponse = f.sandboxResponse]
      [] fieldName = "errorFlags" ->
            [InitialForm EXCEPT !.errorFlags = f.errorFlags]
      [] OTHER ->
            [InitialForm EXCEPT !.otherErrorExplanation = f.otherErrorExplanation]

\* The fields of a form mounted for the same task and section from a fresh
\* fetch of the record.
Remounted ==
    LET fresh == {FormProps(SelectedTask(T42, airtable["rec42"].notes),
                            props.url, props.sectionIndex)}
    IN  CHOOSE f \in {Mounted(p).form : p \in fresh} : TRUE

\* The field whose save settled last is stored under its key with the value
\* the user has set, and a remounted form shows it as the user has set it.
RoundTripOfSettled ==
    LET key == jsonKey(taskNumber, props.sectionIndex, settled.field)
    IN  /\ key \in DOMAIN Stored
        /\ unwrapTimestampedValue(Stored[key]) = UserValue(form, settled.field)
        /\ Shown(Remounted, settled.field) = Shown(form, settled.field)

\* A save has completed without error, no save has overlapped another, and
\* the handler that started it has nothing left to do.
SaveCompleted ==
    /\ Len(calls') < Len(calls)
    /\ ~settled'.threw
    /\ ~job'.has
    /\ ~overlapped'

\* C5: once a save of the form has completed, the stored map holds the value
\* the user has set under the field's key, and a form remounted from a fresh
\* fetch shows the field as the user has set it.
C5_RoundTrip == [][SaveCompleted => RoundTripOfSettled']_vars

\* C5 for every field but the action category.
C5_RoundTripButCategory ==
    [][(SaveCompleted /\ settled'.field # "actionCategory")
          => RoundTripOfSettled']_vars

\* The field of task 42 holds nothing or a map.
HoldsMapOrNothing ==
    LET notes == airtable["rec42"].notes
    IN  \/ notes.t = "undefined"
        \/ notes.t = "string" /\ notes.text.kind = "map"

\* C6: as long as no save of the form has started while another was in
\* flight, and the field held nothing or a map, no step removes a key from
\* the stored map, and a save that completes leaves its key in the map with
\* the value it carried, the empty text and the empty list included.
C6_KeysNeverShrink ==
    [][(~overlapped' /\ HoldsMapOrNothing) =>
          /\ DOMAIN Stored \subseteq DOMAIN Stored'
          /\ (Len(calls') < Len(calls) /\ ~settled'.threw) =>
                /\ calls[1].key \in DOMAIN Stored'
                /\ Stored'[calls[1].key] = calls[1].value]_vars

\* The user has unchecked "other": the explanation that was stored is now
\* stored as the empty text, next to the keys the map held before.
C6_Witness ==
    LET key == jsonKey(T42, 1, "errorFlagOtherExplanation")
    IN  /\ ~overlapped
        /\ key \in DOMAIN Stored
        /\ Stored[key].wrapped
        /\ Stored[key].value = StrV("")
        /\ DOMAIN FormOldMap \subseteq DOMAIN Stored

\* The fields the form saves.
FieldNames ==
    {"actionCategory", "actionCorrectness", "reasoningQuality",
     "sandboxResponse", "errorFlags", "errorFlagOtherExplanation"}

\* C7: a field is pending exactly while a save of that field is in flight.
C7_PendingWhileInFlight ==
    \A f \in FieldNames :
        (saving = f) <=> (\E c \in DOMAIN calls : calls[c].field = f)

\* C7 as long as no save has started while another was in flight.
C7_PendingWhenAlone ==
    ~overlapped => C7_PendingWhileInFlight

\* A user event has changed the local fields.
ControlChanged == edits' = edits + 1 /\ form' # form

\* The handler of the user event has started a save, and the fields it saves,
\* at once or once that save has settled, include every field it has changed.
ChangeIsSaved ==
    /\ Len(calls') = Len(calls) + 1
    /\ LET new == calls'[Len(calls')]
           savedFields == {new.field}
                       \cup (IF new.next.has THEN {new.next.field} ELSE {})
       IN  \A f \in FieldNames :
              Shown(form, f) # Shown(form', f) => f \in savedFields

\* C8: every user event that changes the local fields starts a save of the
\* changed field.
C8_EveryChangeIsSaved == [][ControlChanged => ChangeIsSaved]_vars

\* C8 for the selects and the checkboxes: the events that change neither of
\* the two texts alone.
C8_SelectsAndCheckboxesAreSaved ==
    [][( /\ ControlChanged
         /\ \/ form'.otherActionCategory = form.otherActionCategory
            \/ form'.actionCategory # form.actionCategory
         /\ \/ form'.otherErrorExplanation = form.otherErrorExplanation
            \/ form'.errorFlags # form.errorFlags )
          => ChangeIsSaved]_vars

SamePropsAgain ==
    /\ props' # props
    /\ props'.sectionIndex = props.sectionIndex
    /\ props'.url = props.url
    /\ props'.prefilledData.data = props.prefilledData.data

\* C10: a re-render of a mounted form with the same section index, the same
\* URL and prefilled data of the same content, in the same object or a new
\* one, changes no local field; so the fields change in a re-render only when
\* the section index, the URL or the content of the prefilled data changes.
C10_SamePropsKeepFields ==
    [][SamePropsAgain =>
          /\ form' = form
          /\ isPrefilled' = isPrefilled
          /\ refs' = refs]_vars

\* The form has been rendered again with a new object of the same content,
\* and it holds a text the user has typed that is not saved.
C10_Witness ==
    /\ props.prefilledData.ref = 1
    /\ props.sectionIndex = 1
    /\ props.url = Url42
    /\ props.prefilledData.data =
          annotationDataBySection(props.selectedTask, Url42, 1)
    /\ isPrefilled
    /\ form.otherErrorExplanation = "why"
    /\ form.errorFlags["toolMisuse"]
    /\ calls = <<>>

(***************************************************************************)
(* Properties of the error flags (specification SpecForm).                 *)
(***************************************************************************)
\* C11: the flag "na" is never set together with another flag: toggling
\* "na" on clears every other flag and toggling another flag on clears "na".
C11_NaExclusive ==
    form.errorFlags["na"] =>
        \A f \in ErrorFlagKeySet \ {"na"} : ~form.errorFlags[f]

\* The user has set "na" in a form that was hydrated with other flags set.
C11_Witness ==
    /\ form.errorFlags["na"]
    /\ <<"errorFlags">> \in DOMAIN props.prefilledData.data
    /\ Mounted(props).form.errorFlags["other"]
    /\ calls = <<>>

(***************************************************************************)
(* Properties of the completion status (specification SpecStatus).         *)
(***************************************************************************)
\* The five questions of the form, and whether the fields answer them.
Answered(question) ==
    CASE question = "category" ->
            /\ form.actionCategory # ""
            /\ form.actionCategory = "other"
                  => form.otherActionCategory \notin BlankTexts
      [] question = "correctness" -> form.actionCorrectness # ""
      [] question = "reasoning" -> form.reasoningQuality # ""
      [] question = "sandbox" -> form.sandboxResponse # ""
      [] OTHER ->
            /\ \E k \in ErrorFlagKeySet : form.errorFlags[k]
            /\ form.errorFlags["other"]
                  => form.otherErrorExplanation \notin BlankTexts

Questions == {"category", "correctness", "reasoning", "sandbox", "flags"}

\* C12: the reported answeredQuestions is the number of the five questions
\* that are answered, totalQuestions is 5, and isComplete holds iff all five
\* are answered; the flag "other" with a blank explanation answers nothing.
C12_StatusCountsQuestions ==
    LET status == CompletionStatus(form)
    IN  /\ status.answeredQuestions
              = Cardinality({q \in Questions : Answered(q)})
        /\ status.totalQuestions = 5
        /\ status.isComplete <=> \A q \in Questions : Answered(q)
        /\ (form.errorFlags["other"] /\ form.otherErrorExplanation \in BlankTexts)
              => status.answeredQuestions
                    = Cardinality({q \in Questions \ {"flags"} : Answered(q)})

\* Only the flag "other" is set, its explanation is blank and every other
\* question is answered: four of five, not complete.
C12_Witness ==
    /\ form.errorFlags = [createInitialErrorFlags EXCEPT !["other"] = TRUE]
    /\ form.otherErrorExplanation = " "
    /\ \A q \in Questions \ {"flags"} : Answered(q)
    /\ CompletionStatus(form).answeredQuestions = 4
    /\ ~CompletionStatus(form).isComplete
    /\ edits > 0

(***************************************************************************)
(* Properties of the markdown viewer (specification SpecView).             *)
(***************************************************************************)
\* The marker comments of the document, in source order.
DocMarkers == SelectSeq(Joined(content), LAMBDA it : it.kind = "marker")

\* The places in the rendered list that stand for a marker comment: a form
\* or nothing.
MarkerPlaces == {j \in 1..Len(view.elements) : view.elements[j].type # "markdown"}

\* The marker comment a place stands for is the k-th of the document.
Ordinal(j) == Cardinality({i \in MarkerPlaces : i <= j})

FormPlaces == {j \in MarkerPlaces : view.elements[j].type = "form"}

\* C13: the form rendered for the k-th marker comment of the document has
\* section index k, the markers without a form counted; so the section
\* indices of the rendered forms strictly increase in document order.
C13_SectionIndexIsOrdinal ==
    view.rendered =>
        /\ Cardinality(MarkerPlaces) = Len(DocMarkers)
        /\ \A j \in FormPlaces : view.elements[j].sectionIndex = Ordinal(j)
        /\ \A i, j \in FormPlaces :
              i < j => view.elements[i].sectionIndex < view.elements[j].sectionIndex

\* Two forms are rendered, the second of them for the third marker comment:
\* the marker between them has no form.
C13_Witness ==
    /\ view.rendered
    /\ Len(DocMarkers) = 3
    /\ \E i, j \in FormPlaces :
          /\ view.elements[i].sectionIndex = 1
          /\ view.elements[j].sectionIndex = 3
    /\ \E n \in MarkerPlaces : view.elements[n].type = "none"

\* The text of the document and the places of its marker comments.
Doc == Joined(content)

MarkerAt(k) ==
    CHOOSE p \in 1..Len(Doc) :
        /\ Doc[p].kind = "marker"
        /\ Cardinality({q \in 1..p : Doc[q].kind = "marker"}) = k

\* The text of the most recent heading before place p of the document, or
\* the empty text.
PrecedingHeading(p) ==
    LET before == {h \in 1..(p - 1) : Doc[h].kind = "heading"}
    IN  IF before = {} THEN <<>>
        ELSE Doc[CHOOSE h \in before : \A g \in before : g <= h].text

\* The first hyphen-delimited token of a text, trimmed and lowercased.
FirstToken(text) ==
    LET hyphens == {i \in 1..Len(text) : text[i] = "-"}
        upTo == IF hyphens = {} THEN Len(text)
                ELSE (CHOOSE i \in hyphens : \A j \in hyphens : i <= j) - 1
    IN  toLowerCase(trim(SubSeq(text, 1, upTo)))

\* The role of the marker comment at place p, in the words of the claim.
RoleOfMarker(p) ==
    IF Doc[p].meta = "role" /\ trim(Doc[p].text) # <<>>
    THEN toLowerCase(trim(Doc[p].text))
    ELSE FirstToken(PrecedingHeading(p))

FormIffAssistant ==
    /\ Cardinality(MarkerPlaces) = Len(DocMarkers)
    /\ \A j \in MarkerPlaces :
          view.elements[j].type = "form"
              <=> RoleOfMarker(MarkerAt(Ordinal(j))) = Assistant

\* C14: a form is rendered for a marker comment iff its role is
\* "assistant": the role of its metadata, trimmed and lowercased, when that
\* is a non-empty string, and otherwise the first hyphen-delimited token of
\* the most recent heading before the marker.
C14_FormIffAssistant == view.rendered => FormIffAssistant

\* What holds instead: the copy of part_004 renders a form iff the role is
\* "assistant"; the copy of MarkdownViewer.tsx renders one for every marker.
C14_FormIffAssistantInOneCopy ==
    view.rendered =>
        IF component = "part_004" THEN FormIffAssistant
        ELSE Cardinality(FormPlaces) = Len(DocMarkers)

\* The copy of part_004 has rendered a form for a marker whose malformed
\* metadata leaves the role to the heading, and none for a marker whose
\* metadata names another role under the same heading.
C14_Witness ==
    /\ view.rendered
    /\ component = "part_004"
    /\ \E i, j \in MarkerPlaces :
          /\ view.elements[i].type = "form"
          /\ Doc[MarkerAt(Ordinal(i))].meta = "malformed"
          /\ view.elements[j].type = "none"
          /\ Doc[MarkerAt(Ordinal(j))].text = <<"user">>
          /\ PrecedingHeading(MarkerAt(Ordinal(j))) = TitleAssistant

\* The annotation placeholders among the segments.
Placeholders == {j \in 1..Len(view.segments) : view.segments[j].type = "annotation"}

\* C15: segmentation yields as many annotation placeholders as the document
\* has marker comments; a document without a marker comment yields exactly
\* one markdown segment, which holds the whole text without its anchor
\* tags, and no form.
C15_PlaceholderPerMarker ==
    view.rendered =>
        /\ Cardinality(Placeholders) = Len(DocMarkers)
        /\ DocMarkers = <<>> =>
              /\ Len(view.segments) = 1
              /\ view.segments[1].type = "markdown"
              /\ view.segments[1].content = processedContent(content)
              /\ \A i \in 1..Len(view.segments[1].content) :
                    view.segments[1].content[i].kind # "anchor"
              /\ FormPlaces = {}

\* Marker comments on the first two lines of a document give two
\* placeholders with the newline between them as a markdown segment.
C15_Witness ==
    /\ view.rendered
    /\ Len(content) >= 3
    /\ Len(DocMarkers) = 2
    /\ Doc[1].kind = "marker"
    /\ Doc[3].kind = "marker"
    /\ Placeholders = {1, 3}
    /\ view.segments[2].content = <<Newline>>

\* A document without a marker comment in which an anchor tag precedes a
\* heading is rendered as one markdown segment without the tag.
C15_WitnessNoMarker ==
    /\ view.rendered
    /\ DocMarkers = <<>>
    /\ \E i \in 1..Len(Doc) : Doc[i].kind = "anchor"
    /\ Len(view.segments) = 1
    /\ view.segments[1].content # Doc
    /\ view.segments[1].content # <<>>

\* The headings of the rendered list, in document order.
RECURSIVE HeadingsFrom(_)
HeadingsFrom(elements) ==
    IF elements = <<>> THEN <<>>
    ELSE Head(elements).headings \o HeadingsFrom(Tail(elements))

RenderedHeadings == HeadingsFrom(view.elements)

\* The lines of the document that are headings; every one of them is
\* rendered, the k-th as the k-th rendered heading.
HeadingLines ==
    {i \in 1..Len(content) :
        content[i] # <<>> /\ content[i][1].kind = "heading"}

HeadingOfLine(i) ==
    RenderedHeadings[Cardinality({j \in HeadingLines : j <= i})]

\* The heading lines with an anchor tag on the line before.
AnchoredLines ==
    {i \in HeadingLines :
        i > 1 /\ content[i - 1] # <<>> /\ content[i - 1][1].kind = "anchor"}

\* The id of a rendered heading is the anchor id the map holds for its
\* slug, and the slug when the map holds none.
IdFromMap(h) ==
    LET anchorIds == extractAnchorIds(content)
        slug == generateId(h.title)
    IN  h.id = IF slug \in DOMAIN anchorIds THEN anchorIds[slug] ELSE slug

\* A rendered heading is marked as an anchor section iff the map holds its
\* slug.
MarkedIffMapped(h) ==
    h.isAnchorSection <=> generateId(h.title) \in DOMAIN extractAnchorIds(content)

\* C16: a rendered heading whose slug is a key of the anchor map has the
\* mapped anchor id and is marked as an anchor section; any other heading
\* has its slug as id and is not marked.  So a heading with an anchor tag
\* before it is rendered with the id of that tag.
C16_HeadingIds ==
    view.rendered =>
        /\ Len(RenderedHeadings) = Cardinality(HeadingLines)
        /\ \A k \in 1..Len(RenderedHeadings) :
              IdFromMap(RenderedHeadings[k]) /\ MarkedIffMapped(RenderedHeadings[k])
        /\ \A i \in AnchoredLines : HeadingOfLine(i).id = content[i - 1][1].text

\* The part of C16 that fails in either copy of the viewer: a heading with
\* an anchor tag before it is rendered with the id of that tag.
C16_AnchoredHeadingHasItsAnchor ==
    (view.rendered /\ component = "part_004") =>
        \A i \in AnchoredLines : HeadingOfLine(i).id = content[i - 1][1].text

\* What holds instead: the id comes from the map in both copies, in which
\* the last anchor tag before a heading of a slug replaces the earlier ones;
\* the copy of part_004 marks the mapped headings and the copy of
\* MarkdownViewer.tsx marks none.
C16_HeadingIdsFromMap ==
    view.rendered =>
        /\ Len(RenderedHeadings) = Cardinality(HeadingLines)
        /\ \A k \in 1..Len(RenderedHeadings) :
              /\ IdFromMap(RenderedHeadings[k])
              /\ IF component = "part_004"
                 THEN MarkedIffMapped(RenderedHeadings[k])
                 ELSE ~RenderedHeadings[k].isAnchorSection

\* The copy of part_004 has rendered the heading "Setup!" after the anchor
\* tag m-2 with the id m-2 and marked it, and another heading with its slug.
C16_Witness ==
    /\ view.rendered
    /\ component = "part_004"
    /\ \E i \in AnchoredLines :
          /\ content[i][1].text = TitleSetup
          /\ content[i - 1][1].text = AnchorM2
          /\ HeadingOfLine(i).id = AnchorM2
          /\ HeadingOfLine(i).isAnchorSection
    /\ \E k \in 1..Len(RenderedHeadings) :
          /\ RenderedHeadings[k].id = <<"assistant", "-", "step", "-", "1">>
          /\ ~RenderedHeadings[k].isAnchorSection

(***************************************************************************)
(* Properties of the proxy (specification SpecProxy).                      *)
(***************************************************************************)
\* The handler has returned its response.
Responded == stage \in {"responded", "returned"}

\* The handler has queried the upstream by the field, and the query has
\* succeeded.
QuerySucceeded(field) ==
    /\ Responded
    /\ upstream.sent # <<>>
    /\ upstream.sent[1].op = "filter"
    /\ upstream.sent[1].field = field
    /\ upstream.answer.kind = "ok"

\* The records of the table whose field has the value, in upstream order,
\* each as {id, fields}.
Expected(field, value) ==
    LET hits == SelectSeq(table, LAMBDA r : r[field] = value)
    IN  [i \in 1..Len(hits) |->
            [id |-> hits[i].id,
             fields |-> IF hits[i].fields = "undefined" THEN "{}"
                        ELSE hits[i].fields]]

\* C17: when the query by a non-empty Unique ID succeeds upstream, the
\* proxy answers 200 with the array of the matching records in upstream
\* order, each reduced to {id, fields}: the empty array when none matches;
\* and getRecordsByUniqueId returns that array and does not throw.
C17_UniqueIdLookupReturnsArray ==
    QuerySucceeded("uniqueId") =>
        /\ request.uniqueId # ""
        /\ response.status = 200
        /\ response.body.kind = "array"
        /\ response.body.records = Expected("uniqueId", request.uniqueId)
        /\ (stage = "returned" /\ request.from = "getRecordsByUniqueId") =>
              /\ result.kind = "array"
              /\ result.records = Expected("uniqueId", request.uniqueId)

\* getRecordsByUniqueId has returned the empty array for a Unique ID that
\* no record of a table with records has.
C17_Witness ==
    /\ QuerySucceeded("uniqueId")
    /\ stage = "returned"
    /\ request.from = "getRecordsByUniqueId"
    /\ request.uniqueId = "u9"
    /\ table # <<>>
    /\ response.status = 200
    /\ response.body.kind = "array"
    /\ response.body.records = <<>>
    /\ result.kind = "array"
    /\ result.records = <<>>

\* getRecordsByUniqueId has returned two records, the first of them a
\* record that the upstream lists without fields.
C17_WitnessMatches ==
    /\ QuerySucceeded("uniqueId")
    /\ stage = "returned"
    /\ request.handler = "vercelUniqueId"
    /\ result.records =
           <<[id |-> "recB", fields |-> "{}"], [id |-> "recA", fields |-> "{notes}"]>>

\* C18: when the query by a non-empty Task Number succeeds upstream, the
\* proxy answers 200: with the body null when no record matches, never
\* with 404, and with the first matching record as {id, fields} otherwise.
C18_TaskLookupReturnsFirstOrNull ==
    QuerySucceeded("taskNumber") =>
        LET expected == Expected("taskNumber", request.taskNumber)
        IN  /\ request.taskNumber # ""
            /\ response.status = 200
            /\ IF expected = <<>>
               THEN response.body.kind = "null"
               ELSE /\ response.body.kind = "record"
                    /\ response.body.records = <<expected[1]>>
            /\ (stage = "returned" /\ request.from = "getRecordByTaskNumber") =>
                  /\ result.kind = response.body.kind
                  /\ result.records = response.body.records

\* getRecordByTaskNumber has returned null for a Task Number that no record
\* of a table with records has: the proxy has answered 200.
C18_Witness ==
    /\ QuerySucceeded("taskNumber")
    /\ stage = "returned"
    /\ request.from = "getRecordByTaskNumber"
    /\ table # <<>>
    /\ response.status = 200
    /\ response.body.kind = "null"
    /\ result.kind = "null"

\* The proxy has answered with the first of two records of the Task Number,
\* which the upstream lists without fields.
C18_WitnessFirst ==
    /\ QuerySucceeded("taskNumber")
    /\ Len(Expected("taskNumber", request.taskNumber)) = 2
    /\ response.body.records = <<[id |-> "recB", fields |-> "{}"]>>

\* A request other than a preflight has reached a handler that has no API
\* key.
NoKeyRequest == ~apiKey /\ stage # "idle" /\ request.method # "OPTIONS"

\* C19: without the API key, every request other than a preflight, to any
\* handler and whatever its method, parameters and body, is answered with
\* status 500, and nothing is sent upstream.
C19_NoKeyIs500 ==
    NoKeyRequest =>
        /\ upstream.sent = <<>>
        /\ stage # "upstream"
        /\ Responded => response.status = 500

\* What holds instead: nothing is sent upstream; the Lambda handler answers
\* 500; a Vercel handler answers 405 to a wrong method and 400 to a missing
\* parameter, and 500 to the requests that pass these checks.
C19_NoKeyIs500AfterValidation ==
    NoKeyRequest =>
        /\ upstream.sent = <<>>
        /\ stage # "upstream"
        /\ Responded =>
              /\ response.status \in {500, 405, 400}
              /\ request.handler = "lambda" => response.status = 500
              /\ response.status = 405 <=>
                    \/ request.handler = "vercelRecord" /\ request.method # "PATCH"
                    \/ request.handler = "vercelUniqueId" /\ request.method # "GET"

\* Without the API key, the Lambda handler has answered 500 to a request
\* with a wrong method and no parameter, and the Vercel handler 500 to a
\* lookup by Unique ID.
C19_Witness ==
    /\ NoKeyRequest
    /\ Responded
    /\ response.status = 500
    /\ response.body.error = KeyNotConfigured
    /\ upstream.sent = <<>>
    /\ \/ /\ request.handler = "lambda"
          /\ request.method = "POST"
          /\ request.uniqueId = ""
          /\ request.path = <<"records-by-unique-id">>
       \/ /\ request.handler = "vercelUniqueId"
          /\ request.from = "getRecordsByUniqueId"

\* A preflight has reached a handler.
Preflight == stage # "idle" /\ request.method = "OPTIONS"

\* C20: every OPTIONS request is answered with status 200 by the first step
\* of its handler, whatever its path, query and body and whether or not the
\* API key is configured, and nothing is sent upstream for it.
C20_PreflightIs200 ==
    Preflight =>
        /\ upstream.sent = <<>>
        /\ stage # "upstream"
        /\ Responded => response.status = 200

\* The handler of a preflight returns in its first step.
C20_PreflightReturnsAtOnce ==
    [][(stage = "received" /\ request.method = "OPTIONS")
          => (stage' = "responded" /\ response'.status = 200)]_vars

\* Without the API key, the Lambda handler has answered 200 to a preflight
\* of the lookup by Unique ID that names no Unique ID.
C20_Witness ==
    /\ Preflight
    /\ Responded
    /\ ~apiKey
    /\ request.handler = "lambda"
    /\ request.path = <<"records-by-unique-id">>
    /\ request.uniqueId = ""
    /\ response.status = 200
    /\ upstream.sent = <<>>

\* The request is one that asks for an update: a PATCH to the Vercel handler
\* of /api/record/[recordId], or a request that the Lambda handler takes to
\* its update route.
UpdateRequest ==
    /\ stage # "idle"
    /\ \/ request.handler = "vercelRecord" /\ request.method = "PATCH"
       \/ /\ request.handler = "lambda"
          /\ request.method # "OPTIONS"
          /\ ~includes(request.path, "records-by-unique-id")
          /\ request.uniqueId = ""
          /\ ~includes(request.path, "record-by-task-number")
          /\ request.taskNumber = ""
          /\ request.method = "PATCH" \/ BodyRecordId(request)

\* The record id that the handler of the request reads.
CarriesRecordId ==
    \/ request.recordId = "query"
    \/ request.handler = "lambda" /\ BodyRecordId(request)

\* The fields of the request, of a body that has any.
FieldsCarried ==
    IF IsObject(request.body) THEN FieldsOf(request.body) ELSE "undefined"

Forwarded == upstream.sent # <<>>

\* C21: with the API key configured, an update request is forwarded upstream
\* only when it carries a record id and a fields value that is a non-empty
\* object; when the record id is missing, or fields is missing, is no object
\* or is the empty object, the proxy answers 400 and sends nothing upstream.
C21_ForwardedOnlyWithFields ==
    (UpdateRequest /\ apiKey /\ request.body # "null") =>
        /\ Forwarded => (CarriesRecordId /\ FieldsCarried = "{..}")
        /\ (Responded /\ ~(CarriesRecordId /\ FieldsCarried = "{..}")) =>
              (response.status = 400 /\ ~Forwarded)

\* What the code requires of fields: a truthy value in the Lambda handler,
\* a truthy value of type object in the Vercel handler.
FieldsAccepted ==
    IF request.handler = "lambda" THEN TruthyFields(FieldsCarried)
    ELSE TruthyFields(FieldsCarried) /\ TypeofObject(FieldsCarried)

\* With the API key configured, an update request is forwarded only when it
\* carries a record id and fields that the handler accepts; a request whose
\* body is absent or a JSON object, and that lacks one of them, is answered
\* 400 by the Lambda handler, and by the Vercel handler when it has a body,
\* with nothing sent upstream.
C21_ForwardedOnlyWithTruthyFields ==
    (UpdateRequest /\ apiKey /\ request.body # "null") =>
        /\ Forwarded => (CarriesRecordId /\ FieldsAccepted)
        /\ (Responded /\ ~(CarriesRecordId /\ FieldsAccepted)
              /\ (request.handler = "lambda" \/ IsObject(request.body))) =>
              (response.status = 400 /\ ~Forwarded)

\* The Vercel handler has forwarded an update whose fields is the empty
\* object, and the Lambda handler one whose fields is a string.
C21_WitnessForwarded ==
    /\ UpdateRequest
    /\ apiKey
    /\ Forwarded
    /\ CarriesRecordId
    /\ \/ request.handler = "vercelRecord" /\ request.body = "emptyFields"
       \/ request.handler = "lambda" /\ request.body = "textFields"

\* The upstream has answered the fetch of the handler with a status that
\* is not ok, and the handler has returned.
UpstreamRefused ==
    /\ Responded
    /\ Forwarded
    /\ upstream.answer.kind # "failed"
    /\ ~Ok(upstream.answer.status)

\* The operation that the handler has sent upstream.
Operation ==
    IF upstream.sent = <<>> THEN "none"
    ELSE LET fetch == upstream.sent[Len(upstream.sent)]
         IN  IF fetch.op = "patch" THEN "update" ELSE fetch.field

\* C22: when the upstream answers the fetch of a lookup by Unique ID, of a
\* lookup by Task Number or of an update with a status that is not 2xx, the
\* response of the proxy has that status and the envelope {error, details}
\* with the body of the upstream as details: never 200, never another
\* status.
C22_UpstreamFailureSurfaces ==
    UpstreamRefused =>
        /\ response.status = upstream.answer.status
        /\ ~Ok(response.status)
        /\ response.body.kind = "error"
        /\ response.body.error = "Airtable API error"
        /\ response.body.details = upstream.answer.text

\* The update of a record that the table does not hold has been refused
\* with 404 by the upstream and with 404 and its body by the Vercel handler.
C22_Witness ==
    /\ UpstreamRefused
    /\ Operation = "update"
    /\ request.handler = "vercelRecord"
    /\ upstream.answer = NotOk(404, "{not found}")
    /\ response.status = 404
    /\ response.body.details = "{not found}"

\* The Lambda handler has surfaced the 422 of a lookup by Task Number and
\* the 503 of a lookup by Unique ID.
C22_WitnessTaskNumber ==
    /\ UpstreamRefused
    /\ Operation = "taskNumber"
    /\ response.status = 422
    /\ response.body.details = "{formula}"

C22_WitnessUniqueId ==
    /\ UpstreamRefused
    /\ Operation = "uniqueId"
    /\ request.handler = "lambda"
    /\ response.status = 503
    /\ response.body.details = "unavailable"

\* The Lambda handler has run on a request whose body is no JSON.
MalformedHandled ==
    /\ stage \notin {"idle", "received"}
    /\ request.handler = "lambda"
    /\ request.body = "malformed"

\* C23: the Lambda handler treats a request whose body is not valid JSON as
\* the same request without a body: it answers, or sends upstream, what it
\* does for that request; no 500 comes from the body; a lookup is forwarded
\* as usual; an update is answered 400 with nothing sent upstream.
C23_MalformedBodyIsNoBody ==
    MalformedHandled =>
        LET bare == handler([request EXCEPT !.body = "none"], apiKey)
        IN  /\ IF bare.respond
               THEN /\ ~Forwarded
                    /\ response = [status |-> bare.status, body |-> bare.body]
               ELSE upstream.sent = <<bare.fetch>>
            /\ (Responded /\ response.status = 500) =>
                  (~apiKey \/ upstream.answer.kind = "failed")
            /\ (apiKey /\ request.method # "OPTIONS" /\ request.uniqueId # "") =>
                  upstream.sent = <<[op |-> "filter", field |-> "uniqueId",
                                     value |-> request.uniqueId]>>
            /\ (UpdateRequest /\ apiKey) =>
                  (Responded /\ response.status = 400 /\ ~Forwarded)

\* An update that names its record in the query and has a body that is no
\* JSON has been answered 400 for its missing fields by the Lambda handler.
C23_Witness ==
    /\ MalformedHandled
    /\ UpdateRequest
    /\ apiKey
    /\ request.recordId = "query"
    /\ Responded
    /\ response.status = 400
    /\ response.body.error = "fields object is required in request body"
    /\ ~Forwarded

\* A lookup by Task Number with a body that is no JSON has been answered
\* with the record.
C23_WitnessLookup ==
    /\ MalformedHandled
    /\ Responded
    /\ Operation = "taskNumber"
    /\ response.status = 200
    /\ response.body.kind = "record"

\* The Lambda handler, with the API key, has run on a request that is no
\* preflight.
LambdaRouted ==
    /\ stage \notin {"idle", "received"}
    /\ request.handler = "lambda"
    /\ request.method # "OPTIONS"
    /\ apiKey

\* The route that the claim gives the request: the first selector that
\* matches, in the fixed order.
RouteClaimed ==
    IF includes(request.path, "records-by-unique-id") \/ request.uniqueId # ""
    THEN "uniqueId"
    ELSE IF includes(request.path, "record-by-task-number")
            \/ request.taskNumber # ""
    THEN "taskNumber"
    ELSE IF request.method = "PATCH" \/ BodyRecordId(request)
    THEN "update"
    ELSE "descriptor"

\* The answers that a route gives before any fetch.
RouteErrors ==
    [uniqueId |-> {"uniqueId parameter is required"},
     taskNumber |-> {"taskNumber parameter is required"},
     update |-> {"recordId is required",
                 "fields object is required in request body"}]

\* The route that has handled the request, read from what the handler sent
\* upstream or, when it sent nothing, from its answer.
RouteTaken ==
    IF Forwarded THEN Operation
    ELSE IF response.status = 200 /\ response.body.kind = "message"
    THEN "descriptor"
    ELSE IF response.status = 400
            /\ \E r \in DOMAIN RouteErrors : response.body.error \in RouteErrors[r]
    THEN CHOOSE r \in DOMAIN RouteErrors : response.body.error \in RouteErrors[r]
    ELSE "none"

\* C25: with the API key configured, the Lambda handler sends each request
\* that is no preflight to exactly one route, the first that matches in the
\* order lookup by Unique ID, lookup by Task Number, update, descriptor; a
\* request that matches no selector gets the 200 descriptor and causes no
\* upstream call, and at most one fetch is made.
C25_FirstMatchingRoute ==
    LambdaRouted =>
        /\ RouteTaken = RouteClaimed
        /\ Len(upstream.sent) <= 1
        /\ RouteClaimed = "descriptor" =>
              (~Forwarded /\ Responded /\ response.status = 200)

\* The same, for every request whose body is not the JSON text null; no
\* request that matches no lookup selector causes an upstream call unless
\* it is an update.
C25_FirstMatchingRouteOfObjectBody ==
    LambdaRouted =>
        /\ request.body # "null" => RouteTaken = RouteClaimed
        /\ RouteTaken \in {RouteClaimed, "none"}
        /\ Len(upstream.sent) <= 1
        /\ RouteClaimed = "descriptor" => ~Forwarded

\* A PATCH that carries fields, a record id, a Task Number and a Unique ID
\* has been handled as a lookup by Unique ID.
C25_WitnessOrder ==
    /\ LambdaRouted
    /\ request.method = "PATCH"
    /\ request.body = "fields"
    /\ request.recordId = "body"
    /\ request.taskNumber = "42"
    /\ request.path = <<"record-by-task-number">>
    /\ request.uniqueId = "u1"
    /\ RouteTaken = "uniqueId"

\* A GET without a selector whose body is the JSON text null has been
\* answered 500.
C25_WitnessNullBody ==
    /\ LambdaRouted
    /\ request.method = "GET"
    /\ request.body = "null"
    /\ RouteClaimed = "descriptor"
    /\ Responded
    /\ response.status = 500
    /\ response.body.error = "Internal server error"

(***************************************************************************)
(* Properties of the page (specification SpecPage).                        *)
(***************************************************************************)
PageTypeOK ==
    /\ loading \in BOOLEAN
    /\ clicks \in 0..MaxClicks
    /\ Len(saved) <= MaxSaves
    /\ Len(network) <= clicks

\* The hosts that a test of the host turns away: the hosts that are not
\* GitHub's, or the hosts whose name does not contain "github.com".
TurnedAway(test, host) ==
    IF test = "isGitHub" THEN ~IsGitHubHost(host) ELSE ~Contains(host, GitHubCom)

\* Loading has failed at once for the hosts that the test turns away: the
\* error is shown, nothing is displayed, and no request was made or is in
\* flight for a link of such a host.
Rejected(test) ==
    /\ (selectedTask # NoTask /\ selectedTask.link.kind = "url"
          /\ TurnedAway(test, selectedTask.link.host)) =>
              (pageError # null /\ ~Displayed)
    /\ \A i \in 1..Len(network) : ~TurnedAway(test, network[i].link.host)
    /\ \A f \in fetches : ~TurnedAway(test, f.url.host)
    /\ selectedTaskLink.kind = "url" => ~TurnedAway(test, selectedTaskLink.host)

OnlyRawRequests ==
    /\ \A i \in 1..Len(network) : network[i].host = RawHost
    /\ \A f \in fetches : f.raw.host = RawHost

\* C24: when the host of the link of the clicked task is not a GitHub host
\* (github.com or a subdomain of it), loading fails with an error shown to
\* the user and no network request is made for the link; every request of
\* a load goes to raw.githubusercontent.com.
C24_NonGitHubHostRejected == Rejected("isGitHub") /\ OnlyRawRequests

\* The same for the hosts whose name does not contain "github.com", which
\* is what the code tests.
C24_HostWithoutGitHubComRejected ==
    Rejected("includes") /\ OnlyRawRequests

\* The link of a GitLab host has been rejected without a request.
C24_WitnessRejected ==
    /\ selectedTask # NoTask
    /\ selectedTask.link.host = GitLabCom
    /\ pageError = "Invalid URL format"
    /\ toast = ErrorToast("Invalid URL format")
    /\ network = <<>>
    /\ ~loading

\* The document of a link of the host github.com.evil.net has been
\* requested from raw.githubusercontent.com and is displayed.
C24_WitnessLookalike ==
    /\ Displayed
    /\ selectedTaskLink.kind = "url"
    /\ selectedTaskLink.host = LookalikeHost
    /\ network = <<[host |-> RawHost, link |-> selectedTaskLink]>>

\* The documents that a link can deliver.
DocumentsOf(link) ==
    UNION {IF out.ok THEN Texts(out.url) ELSE {} : out \in convertToRawUrl(link)}

\* The task of the list that the document of a link belongs to.
OwnersOf(link) == {tasks[i].taskNumber : i \in {j \in 1..Len(tasks) : tasks[j].link = link}}

\* A document is displayed and no load is in flight.
Settled_Display == Displayed /\ fetches = {}

\* C27: whenever a document is displayed and no load is in flight, the
\* markdown and selectedTaskLink are those of the selected task, in every
\* order of the clicks and the answers of the fetches; and no save of the
\* form is made under the task number of a task other than the one whose
\* document is shown.
C27_DisplayedBelongsToSelected ==
    /\ Settled_Display =>
          /\ selectedTaskLink = selectedTask.link
          /\ markdown \in DocumentsOf(selectedTask.link)
    /\ \A i \in 1..Len(saved) : saved[i].taskNumber \in OwnersOf(saved[i].link)

\* The markdown that is displayed is always the document of
\* selectedTaskLink: the two are set together.
C27_DisplayedBelongsToLoadedLink ==
    Displayed => markdown \in DocumentsOf(selectedTaskLink)

\* With no load in flight, the document of task 42 is displayed while task
\* 7 is selected, and a save of its form has gone under task number 7.
C27_WitnessRace ==
    /\ Settled_Display
    /\ selectedTask.taskNumber = "7"
    /\ selectedTaskLink = tasks[1].link
    /\ markdown = <<"o", "r", "main", "42.md">>
    /\ saved # <<>>
    /\ saved[Len(saved)].taskNumber = "7"
    /\ saved[Len(saved)].document = markdown

\* The saves made so far under a task number, and the value of the last.
SavesOf(number) == SelectSeq(saved, LAMBDA sv : sv.taskNumber = number)

LastSaved(number) == SavesOf(number)[Len(SavesOf(number))].value

\* C28: once a field has been saved for a task, the form that is mounted
\* when the task is opened again from the list, directly or after another
\* task, shows the saved value: it is never filled from a copy of the
\* record older than the last successful save.
C28_ReopenedFormShowsSaved ==
    (Displayed /\ SavesOf(PageTaskNumber) # <<>>) =>
        shown = LastSaved(PageTaskNumber)

\* The copy of a record in the list is the one fetchTasksForUser stored:
\* no save and no click replaces it.
C28_ListKeepsItsCopy == [][tasks' = tasks]_vars

\* Task 42 was opened, its field saved as v1, and the task opened again
\* with no other load in between: the form shows the value of the list's
\* copy of the record.
C28_WitnessStale ==
    /\ Displayed
    /\ fetches = {}
    /\ clicks = 2
    /\ selectedTask = tasks[1]
    /\ selectedTaskLink = tasks[1].link
    /\ Len(saved) = 1
    /\ saved[1].taskNumber = "42"
    /\ saved[1].link = tasks[1].link
    /\ saved[1].value = "v1"
    /\ shown = tasks[1].notes

(***************************************************************************)
(* Properties of the form under overlapping saves (specification SpecForm).*)
(***************************************************************************)
\* No persist call of the form is in flight or due, and none has failed.
Quiescent == calls = <<>> /\ ~job.has /\ ~settled.anyThrew

\* The stored map holds, under the key of the field, the value that the
\* user chose last.
StoredAsChosen(fieldName) ==
    LET key == jsonKey(taskNumber, props.sectionIndex, fieldName)
    IN  /\ key \in DOMAIN Stored
        /\ unwrapTimestampedValue(Stored[key]) = UserValue(form, fieldName)

\* C26: whenever no persist call of the form is in flight and none has
\* failed, the stored map holds, for every field that the user has changed
\* and the form has saved, the value the user chose last, in every order
\* of the user's changes and of the answers to the lookups and PATCHes of
\* saves that overlap.
C26_QuiescentConsistency ==
    Quiescent => \A f \in settled.fields : StoredAsChosen(f)

\* The same as long as no save has started while another was in flight,
\* for every field but the action category and the explanation of "other",
\* whose texts are typed without a save.
C26_QuiescentConsistencyWhenAlone ==
    (Quiescent /\ ~overlapped) =>
        \A f \in settled.fields \ {"actionCategory", "errorFlagOtherExplanation"} :
            StoredAsChosen(f)

\* The user has set the correctness and the reasoning quality, the two
\* saves have overlapped and both have returned without error, and the
\* stored map lacks the key of one of the two.
C26_WitnessLostUpdate ==
    /\ Quiescent
    /\ overlapped
    /\ settled.fields = {"actionCorrectness", "reasoningQuality"}
    /\ form.actionCorrectness = "correct"
    /\ form.reasoningQuality = "clear"
    /\ \E f \in settled.fields :
          jsonKey(taskNumber, props.sectionIndex, f) \notin DOMAIN Stored

(***************************************************************************)
(* Properties of updateAnnotationNote on any content of the field          *)
(* (specification Spec).                                                   *)
(***************************************************************************)
\* One call was made, no other writer, and it has returned without error.
ReturnedAlone == Len(calls) = 1 /\ calls[1].pc = "returned"

\* The field of the record of the call parses to a map that holds the key
\* of the call with its value.
EntryStored ==
    LET notes == airtable[calls[1].record.id].notes
    IN  /\ notes.t = "string"
        /\ notes.text.kind = "map"
        /\ calls[1].key \in DOMAIN notes.text.m
        /\ notes.text.m[calls[1].key] = calls[1].value

\* The field held an array, or a text that is the JSON of an array, when
\* the call looked the record up.
HeldArray ==
    LET notes == calls[1].record.notes
    IN  \/ notes.t = "array"
        \/ notes.t = "string" /\ notes.text.kind = "array"

\* C29: whenever updateAnnotationNote returns without error and no other
\* writer intervenes, the stored field parses to a map in which the key
\* maps to the value, whatever the field held before: a text that is the
\* JSON of an array, of null or of a number, and an object that is no map,
\* included.
C29_ReturnedMeansStored == ReturnedAlone => EntryStored

\* The same for every content but an array and the JSON text of one; and
\* on the JSON text of null or of a number the call does not return.
C29_ReturnedMeansStoredUnlessArray ==
    ReturnedAlone =>
        /\ ~HeldArray => EntryStored
        /\ ~(calls[1].record.notes.t = "string"
               /\ calls[1].record.notes.text.kind \in {"null", "number"})

\* The call has returned without error on a field that held the JSON text
\* of an array, and the field holds the JSON text of an array without the
\* key.
C29_WitnessArray ==
    /\ ReturnedAlone
    /\ calls[1].record.notes = JsString(Text("array", EmptyMap))
    /\ airtable[calls[1].record.id].notes = JsString(Text("array", EmptyMap))

\* The call on a field that holds the JSON text null has thrown a
\* TypeError after its lookup.
C29_WitnessNull ==
    /\ Len(calls) = 1
    /\ calls[1].pc = "threw"
    /\ calls[1].err = TypeErrorMessage
    /\ calls[1].record.notes = JsString(Text("null", EmptyMap))
(***************************************************************************)
(* Properties of the error flags of a form mounted empty (SpecFlags).      *)
(***************************************************************************)
\* C30: starting from an empty form, after any sequence of error-flag
\* toggles and explanation edits, the local explanation of "other" is empty
\* whenever the flag "other" is not set: unchecking "other", and checking
\* "N/A" while "other" is set, both clear the text.
C30_ExplanationEmptyUnlessOther ==
    ~form.errorFlags["other"] => form.otherErrorExplanation = ""

\* The save of the typed explanation "why" that the blur of the textarea has
\* started is in flight.
TypedSaveInFlight ==
    \E c \in DOMAIN calls :
        /\ calls[c].field = "errorFlagOtherExplanation"
        /\ unwrapTimestampedValue(calls[c].value) = StrV("why")

\* The user has checked "other", typed an explanation, left the textarea and
\* checked "N/A": the typed text is on its way to the table and the local
\* text is empty.
C30_WitnessNA ==
    /\ edits = 4
    /\ TypedSaveInFlight
    /\ form.errorFlags = [createInitialErrorFlags EXCEPT !["na"] = TRUE]
    /\ form.otherErrorExplanation = ""

\* The same, the user unchecking "other" in the end.
C30_WitnessUnchecked ==
    /\ edits = 4
    /\ TypedSaveInFlight
    /\ form.errorFlags = createInitialErrorFlags
    /\ form.otherErrorExplanation = ""

====
